---------------------------- MODULE Spec2Model ----------------------------
(***************************************************************************)
(* State-machine model of the wp-pilot installer:                         *)
(*   - the install route (src/src/app/api/install/route.ts, POST),         *)
(*   - the provisioning program (src/src/lib/wordpress.ts,                 *)
(*     installWordPress and runCheckedCommand),                            *)
(*   - the command executor (src/src/lib/ssh.ts, execCommandWithTimeout).  *)
(*                                                                         *)
(* JavaScript runs every continuation to completion, so one action of the  *)
(* model is one event-loop turn: everything the code does from the moment  *)
(* an awaited promise settles up to the next await (or the end of the      *)
(* stream's start() callback).  The remote host and the network are the    *)
(* environment: each issued command ends with an exit code, with a         *)
(* transport error, or with the command timer firing.                      *)
(***************************************************************************)
EXTENDS Integers, Sequences, FiniteSets, TLC

VARIABLES
    phase,            \* position of the route: idle / rejected / connecting / running / closed
    response,         \* HTTP response: [status, error]
    serverPort,       \* serverConfig.port after parsePort
    enableSSL,        \* siteConfig.enableSSL
    conn,             \* the SSH session: [resolved, open, port, endCalls, closeCount]
    writable,         \* the stream controller accepts enqueue (the observer is there)
    controllerClosed, \* route.ts controllerClosed
    stream,           \* records enqueued on the event stream, in order
    log,              \* progress-callback calls, command issues and command ends, in order
    pc,               \* index in Program of the command being awaited
    locals,           \* installWordPress locals
    result,           \* value returned by installWordPress
    host,             \* what the remote host holds between runs
    prior,            \* the stages of HostStages that earlier runs against the host completed
    runs,             \* number of requests posted against the host
    attempt,          \* one call of createSSHConnection: its locals, its promise, its transport
    probe,            \* the connectivity probe (test-connection/route.ts, POST)
    request,          \* the body of the install request, where a specification draws it
    gen,              \* one call of generatePassword: its argument, the random bytes, its value
    sites,            \* the sites provisioned on one database server, and the domain posted next
    exec              \* one call of runCheckedCommand: the command's stream, timer and promises

vars == << phase, response, serverPort, enableSSL, conn, writable, controllerClosed,
           stream, log, pc, locals, result, host, prior, runs, attempt, probe, request, gen, sites, exec >>

---------------------------------------------------------------------------
(* Bounds of the model. *)

\* generatePassword draws from 1..NumPasswords
NumPasswords == 2

\* requests posted against one host in SpecRerun
MaxRuns == 2

\* the longest domain of DomainAlphabet the model posts
MaxDomainLength == 6

\* sites provisioned on one database server in SpecSites
MaxSites == 2

(* Program constants. *)

DefaultPort == 22

MinPort == 1

MaxPort == 65535

\* body.port absent (undefined, null or '')
NoPort == -1

\* the values of body.port the model posts: absent, below the range, the two
\* ends of the range, above the range
PortInputs == {NoPort, MinPort - 1, MinPort, MaxPort, MaxPort + 1}

---------------------------------------------------------------------------
(* validation.ts *)

\* parsePort: null is modelled as 0, which is no port
parsePort(value) ==
    IF value = NoPort THEN DefaultPort
    ELSE IF value < MinPort \/ value > MaxPort THEN 0
    ELSE value

SUPPORTED_PHP_VERSIONS == {"8.1", "8.2", "8.3", "8.4"}

\* parsePhpVersion: null is modelled as ""; an absent value is "absent"
parsePhpVersion(value) ==
    IF value = "absent" THEN "8.3"
    ELSE IF value \in SUPPORTED_PHP_VERSIONS THEN value
    ELSE ""

\* Hosts are modelled by three representatives: absent, with white space,
\* well formed (validation.ts 25-27).
isValidHost(h) == h = "203.0.113.7"

\* Domains are modelled by three representatives: absent, malformed, well formed.
isValidDomain(domain) == domain = "example.com"

\* The request bodies with body.port in ports and body.enableSSL in ssl; every
\* other field ranges over a valid and an invalid representative.
BodiesWith(ports, ssl) ==
    [ host : {"", "bad host", "203.0.113.7"},
      username : {"", "root"},
      domain : {"", "not a domain", "example.com"},
      port : ports,
      authMethod : {"password", "key"},
      password : {"", "secret"},
      privateKey : {"", "KEY"},
      adminUserOk : BOOLEAN,
      adminEmailOk : BOOLEAN,
      phpVersion : {"absent", "8.1", "7.4"},
      enableSSL : ssl ]

\* requests on every port, without TLS
Bodies == BodiesWith(PortInputs, {FALSE})

\* requests on the default port, with and without TLS
TlsBodies == BodiesWith({NoPort}, BOOLEAN)

\* requests on the default port, without TLS
RerunBodies == BodiesWith({NoPort}, {FALSE})

\* Variant of ValidationError without the port check.
ValidationErrorNoPortCheck(body) ==
    IF ~isValidHost(body.host) \/ body.username = "" \/ body.domain = ""
        THEN "Host, username, and domain are required."
    ELSE IF ~isValidDomain(body.domain)
        THEN "Domain format is invalid."
    ELSE IF body.authMethod = "password" /\ body.password = ""
        THEN "Password is required for password authentication."
    ELSE IF body.authMethod = "key" /\ body.privateKey = ""
        THEN "Private key is required for key authentication."
    ELSE IF ~body.adminUserOk
        THEN "Admin username is invalid."
    ELSE IF ~body.adminEmailOk
        THEN "Admin email format is invalid."
    ELSE IF parsePhpVersion(body.phpVersion) = ""
        THEN "Unsupported PHP version."
    ELSE ""

\* route.ts POST, step 2: the first failing check's message, "" when all pass
ValidationError(body) ==
    IF ~isValidHost(body.host) \/ body.username = "" \/ body.domain = ""
        THEN "Host, username, and domain are required."
    ELSE IF ~isValidDomain(body.domain)
        THEN "Domain format is invalid."
    ELSE IF parsePort(body.port) = 0
        THEN "Port must be an integer between 1 and 65535."
    ELSE IF body.authMethod = "password" /\ body.password = ""
        THEN "Password is required for password authentication."
    ELSE IF body.authMethod = "key" /\ body.privateKey = ""
        THEN "Private key is required for key authentication."
    ELSE IF ~body.adminUserOk
        THEN "Admin username is invalid."
    ELSE IF ~body.adminEmailOk
        THEN "Admin email format is invalid."
    ELSE IF parsePhpVersion(body.phpVersion) = ""
        THEN "Unsupported PHP version."
    ELSE ""

---------------------------------------------------------------------------
(* wordpress.ts: the provisioning program as a table of instructions.      *)
(* "run" is one remote command: through runCheckedCommand when checked,    *)
(* through execCommandWithTimeout alone otherwise (its result is kept in   *)
(* the local named by reg).  "emit" is one onProgress call.  "if" skips    *)
(* the next n instructions when its condition is false, "skip" skips the   *)
(* next n, "set" assigns sslInstalled = true, "return" is the success      *)
(* return.                                                                 *)

Emit(step, status, msg) ==
    [op |-> "emit", step |-> step, status |-> status, msg |-> msg]

Checked(stage, cmd, arg, ctx) ==
    [op |-> "run", checked |-> TRUE, stage |-> stage, cmd |-> cmd, arg |-> arg,
     ctx |-> ctx, reg |-> ""]

Unchecked(stage, cmd, arg, reg) ==
    [op |-> "run", checked |-> FALSE, stage |-> stage, cmd |-> cmd, arg |-> arg,
     ctx |-> "", reg |-> reg]

If(cond, n) == [op |-> "if", cond |-> cond, n |-> n]

Skip(n) == [op |-> "skip", n |-> n]

SetSslInstalled == [op |-> "set"]

Return == [op |-> "return"]

\* wordpress.ts 141-153: the packages of the php stage's install command
RequiredPhpPackages == {"fpm", "mysql", "curl", "gd", "mbstring", "xml", "zip", "intl"}

\* the packages the spec calls optional (wordpress.ts 150-152)
OptionalPhpPackages == {"soap", "bcmath", "imagick"}

\* the php packages a command installs
Packages(cmd) ==
    IF cmd = "apt-get install php extensions"
    THEN RequiredPhpPackages \cup OptionalPhpPackages
    ELSE {}

\* Variant of NginxStage that installs the package whatever the pre-check says.
NginxStageAlwaysInstalls ==
    << Emit("nginx", "running", "Installing Nginx..."),
       Unchecked("nginx", "command -v nginx", "", "nginxCheck"),
       Skip(0),
       Checked("nginx", "apt-get install nginx", "", "Nginx installation failed"),
       Checked("nginx", "systemctl enable+start nginx", "", "Nginx service setup failed"),
       Emit("nginx", "completed", "Nginx installed and running") >>

\* Variant of SystemUpdateStage that forgets the stage's 'completed' event.
SystemUpdateStageNoCompleted ==
    << Emit("system-update", "running", "Updating system packages..."),
       Checked("system-update", "apt-get update", "", "System update failed") >>

\* wordpress.ts 87-94
SystemUpdateStage ==
    << Emit("system-update", "running", "Updating system packages..."),
       Checked("system-update", "apt-get update", "", "System update failed"),
       Emit("system-update", "completed", "System packages updated") >>

\* wordpress.ts 96-107
NginxStage ==
    << Emit("nginx", "running", "Installing Nginx..."),
       Unchecked("nginx", "command -v nginx", "", "nginxCheck"),
       If("nginxCheck", 1),
       Checked("nginx", "apt-get install nginx", "", "Nginx installation failed"),
       Checked("nginx", "systemctl enable+start nginx", "", "Nginx service setup failed"),
       Emit("nginx", "completed", "Nginx installed and running") >>

\* Variant of DatabaseStage that reports completion before the service is
\* set up.
DatabaseStageCompletedEarly ==
    << Emit("database", "running", "Installing MariaDB..."),
       Unchecked("database", "command -v mariadb", "", "dbCheck"),
       If("dbCheck", 1),
       Checked("database", "apt-get install mariadb", "", "MariaDB installation failed"),
       Emit("database", "completed", "MariaDB installed and running"),
       Checked("database", "systemctl enable+start mariadb", "", "MariaDB service setup failed") >>

\* wordpress.ts 109-120
DatabaseStage ==
    << Emit("database", "running", "Installing MariaDB..."),
       Unchecked("database", "command -v mariadb", "", "dbCheck"),
       If("dbCheck", 1),
       Checked("database", "apt-get install mariadb", "", "MariaDB installation failed"),
       Checked("database", "systemctl enable+start mariadb", "", "MariaDB service setup failed"),
       Emit("database", "completed", "MariaDB installed and running") >>

\* wordpress.ts 122-166
PhpStage ==
    << Emit("php", "running", "Installing PHP and extensions..."),
       Checked("php", "apt-get install software-properties-common", "",
               "PHP prerequisite installation failed"),
       Checked("php", "add-apt-repository ondrej/php", "", "PHP repository setup failed"),
       Checked("php", "apt-get update", "",
               "Package index refresh failed after PHP repository setup"),
       Checked("php", "apt-get install php extensions", "", "PHP installation failed"),
       Checked("php", "systemctl enable+start php-fpm", "", "PHP-FPM service setup failed"),
       Emit("php", "completed", "PHP installed with extensions") >>

\* wordpress.ts 168-179
DbConfigStage ==
    << Emit("db-config", "running", "Creating WordPress database and user..."),
       Checked("db-config", "CREATE DATABASE IF NOT EXISTS", "", "Database setup failed"),
       Checked("db-config", "CREATE USER IF NOT EXISTS", "dbPassword", "Database setup failed"),
       Checked("db-config", "GRANT ALL PRIVILEGES", "", "Database setup failed"),
       Checked("db-config", "FLUSH PRIVILEGES", "", "Database setup failed"),
       Emit("db-config", "completed", "Database and user created") >>

\* Variant of WordpressStage that empties the install directory first.
WordpressStageClearsDestination ==
    << Emit("wordpress", "running", "Downloading latest WordPress..."),
       Checked("wordpress", "mkdir -p wpDir", "", "WordPress download failed"),
       Checked("wordpress", "find wpDir -exec rm -rf", "", "WordPress download failed"),
       Checked("wordpress", "curl latest.tar.gz", "", "WordPress download failed"),
       Checked("wordpress", "tar -xzf", "", "WordPress download failed"),
       Checked("wordpress", "cp -a to wpDir", "", "WordPress download failed"),
       Checked("wordpress", "rm -rf scratch (after)", "", "WordPress download failed"),
       Emit("wordpress", "completed", "WordPress downloaded") >>

\* wordpress.ts 181-194
WordpressStage ==
    << Emit("wordpress", "running", "Downloading latest WordPress..."),
       Checked("wordpress", "rm -rf scratch (before)", "", "WordPress download failed"),
       Checked("wordpress", "mkdir -p wpDir", "", "WordPress download failed"),
       Checked("wordpress", "curl latest.tar.gz", "", "WordPress download failed"),
       Checked("wordpress", "tar -xzf", "", "WordPress download failed"),
       Checked("wordpress", "cp -a to wpDir", "", "WordPress download failed"),
       Checked("wordpress", "rm -rf scratch (after)", "", "WordPress download failed"),
       Emit("wordpress", "completed", "WordPress downloaded") >>

\* wordpress.ts 196-248
WpConfigStage ==
    << Emit("wp-config", "running", "Configuring WordPress..."),
       Checked("wp-config", "tee wp-config.php", "dbPassword", "WordPress config write failed"),
       Checked("wp-config", "chown -R www-data", "", "WordPress ownership update failed"),
       Checked("wp-config", "chmod 755 directories", "", "Directory permission update failed"),
       Checked("wp-config", "chmod 644 files", "", "File permission update failed"),
       Emit("wp-config", "completed", "WordPress configured") >>

\* Variant of NginxConfigStage that does not read the result of 'nginx -t'.
NginxConfigStageIgnoresTest ==
    << Emit("nginx-config", "running", "Setting up Nginx virtual host..."),
       Unchecked("nginx-config", "test -f fastcgi-php.conf", "", "fastcgiSnippetCheck"),
       Checked("nginx-config", "tee nginx site", "phpLocationBlock",
               "Nginx configuration write failed"),
       Checked("nginx-config", "ln -sfn site", "", "Nginx site enable failed"),
       Checked("nginx-config", "rm -f default site", "", "Nginx default site cleanup failed"),
       Unchecked("nginx-config", "nginx -t", "", ""),
       Checked("nginx-config", "systemctl reload nginx", "", "Nginx reload failed"),
       Emit("nginx-config", "completed", "Nginx virtual host configured") >>

\* wordpress.ts 250-313
NginxConfigStage ==
    << Emit("nginx-config", "running", "Setting up Nginx virtual host..."),
       Unchecked("nginx-config", "test -f fastcgi-php.conf", "", "fastcgiSnippetCheck"),
       Checked("nginx-config", "tee nginx site", "phpLocationBlock",
               "Nginx configuration write failed"),
       Checked("nginx-config", "ln -sfn site", "", "Nginx site enable failed"),
       Checked("nginx-config", "rm -f default site", "", "Nginx default site cleanup failed"),
       Checked("nginx-config", "nginx -t", "", "Nginx configuration test failed"),
       Checked("nginx-config", "systemctl reload nginx", "", "Nginx reload failed"),
       Emit("nginx-config", "completed", "Nginx virtual host configured") >>

\* wordpress.ts 315-343
WpInstallStage ==
    << Emit("wp-install", "running", "Running WordPress installation..."),
       Unchecked("wp-install", "command -v wp", "", "wpCliCheck"),
       If("wpCliCheck", 4),
       Checked("wp-install", "curl wp-cli.phar", "", "WP-CLI download failed"),
       Checked("wp-install", "php wp-cli.phar --info", "", "WP-CLI PHAR validation failed"),
       Checked("wp-install", "install wp-cli", "", "WP-CLI installation failed"),
       Checked("wp-install", "rm -f wp-cli.phar", "", "WP-CLI cleanup failed"),
       Checked("wp-install", "wp core install", "adminPassword", "WordPress core install failed"),
       Emit("wp-install", "completed", "WordPress installed successfully") >>

\* Variant of SecurityStage that enables the firewall before the allow rules.
SecurityStageEnableFirst ==
    << Emit("security", "running", "Applying security hardening..."),
       Unchecked("security", "command -v ufw", "", "ufwCheck"),
       If("ufwCheck", 1),
       Checked("security", "apt-get install ufw", "", "UFW installation failed"),
       Checked("security", "ufw --force enable", "", "Firewall enable failed"),
       Checked("security", "ufw allow", "effectiveSshPort", "Firewall SSH rule setup failed"),
       Checked("security", "ufw allow", "80", "Firewall HTTP rule setup failed"),
       Checked("security", "ufw allow", "443", "Firewall HTTPS rule setup failed"),
       Checked("security", "sed upload_max_filesize", "", "PHP hardening configuration failed"),
       Checked("security", "sed post_max_size", "", "PHP hardening configuration failed"),
       Checked("security", "sed max_execution_time", "", "PHP hardening configuration failed"),
       Checked("security", "sed memory_limit", "", "PHP hardening configuration failed"),
       Checked("security", "systemctl restart php-fpm", "", "PHP-FPM restart failed"),
       Emit("security", "completed", "Security hardening applied") >>

\* wordpress.ts 345-374
SecurityStage ==
    << Emit("security", "running", "Applying security hardening..."),
       Unchecked("security", "command -v ufw", "", "ufwCheck"),
       If("ufwCheck", 1),
       Checked("security", "apt-get install ufw", "", "UFW installation failed"),
       Checked("security", "ufw allow", "effectiveSshPort", "Firewall SSH rule setup failed"),
       Checked("security", "ufw allow", "80", "Firewall HTTP rule setup failed"),
       Checked("security", "ufw allow", "443", "Firewall HTTPS rule setup failed"),
       Checked("security", "ufw --force enable", "", "Firewall enable failed"),
       Checked("security", "sed upload_max_filesize", "", "PHP hardening configuration failed"),
       Checked("security", "sed post_max_size", "", "PHP hardening configuration failed"),
       Checked("security", "sed max_execution_time", "", "PHP hardening configuration failed"),
       Checked("security", "sed memory_limit", "", "PHP hardening configuration failed"),
       Checked("security", "systemctl restart php-fpm", "", "PHP-FPM restart failed"),
       Emit("security", "completed", "Security hardening applied") >>

\* Variant of SslStage that never sets sslInstalled.
SslStageNeverInstalled ==
    << If("enableSSL", 16),
       Emit("ssl", "running", "Setting up SSL with Let's Encrypt..."),
       Checked("ssl", "apt-get install certbot", "", "Certbot installation failed"),
       Unchecked("ssl", "getent apex", "", "apexDns"),
       Unchecked("ssl", "getent www", "", "wwwDns"),
       Unchecked("ssl", "certbot --nginx", "certDomains", "certResult"),
       If("certResult", 2),
       Emit("ssl", "failed", "SSL setup failed."),
       Skip(8),
       Checked("ssl", "systemctl reload nginx", "", "Nginx reload after SSL failed"),
       Unchecked("ssl", "wp option update siteurl", "", "siteUrlUpdate"),
       Unchecked("ssl", "wp option update home", "", "homeUrlUpdate"),
       Skip(0),
       If("urlsUpdated", 2),
       Emit("ssl", "completed", "SSL certificate installed and WordPress updated to HTTPS"),
       Skip(1),
       Emit("ssl", "completed", "SSL certificate installed. Update siteurl/home manually.") >>

\* Variant of SslStage that runs whether or not TLS was requested.
SslStageUnconditional ==
    << Skip(0),
       Emit("ssl", "running", "Setting up SSL with Let's Encrypt..."),
       Checked("ssl", "apt-get install certbot", "", "Certbot installation failed"),
       Unchecked("ssl", "getent apex", "", "apexDns"),
       Unchecked("ssl", "getent www", "", "wwwDns"),
       Unchecked("ssl", "certbot --nginx", "certDomains", "certResult"),
       If("certResult", 2),
       Emit("ssl", "failed", "SSL setup failed."),
       Skip(8),
       Checked("ssl", "systemctl reload nginx", "", "Nginx reload after SSL failed"),
       Unchecked("ssl", "wp option update siteurl", "", "siteUrlUpdate"),
       Unchecked("ssl", "wp option update home", "", "homeUrlUpdate"),
       SetSslInstalled,
       If("urlsUpdated", 2),
       Emit("ssl", "completed", "SSL certificate installed and WordPress updated to HTTPS"),
       Skip(1),
       Emit("ssl", "completed", "SSL certificate installed. Update siteurl/home manually.") >>

\* wordpress.ts 376-442
SslStage ==
    << If("enableSSL", 16),
       Emit("ssl", "running", "Setting up SSL with Let's Encrypt..."),
       Checked("ssl", "apt-get install certbot", "", "Certbot installation failed"),
       Unchecked("ssl", "getent apex", "", "apexDns"),
       Unchecked("ssl", "getent www", "", "wwwDns"),
       Unchecked("ssl", "certbot --nginx", "certDomains", "certResult"),
       If("certResult", 2),
       Emit("ssl", "failed", "SSL setup failed."),
       Skip(8),
       Checked("ssl", "systemctl reload nginx", "", "Nginx reload after SSL failed"),
       Unchecked("ssl", "wp option update siteurl", "", "siteUrlUpdate"),
       Unchecked("ssl", "wp option update home", "", "homeUrlUpdate"),
       SetSslInstalled,
       If("urlsUpdated", 2),
       Emit("ssl", "completed", "SSL certificate installed and WordPress updated to HTTPS"),
       Skip(1),
       Emit("ssl", "completed", "SSL certificate installed. Update siteurl/home manually.") >>

\* wordpress.ts 444-453
CompleteStage ==
    << Emit("complete", "completed", "WordPress installation complete!"),
       Return >>

\* Variant of Program that writes wp-config.php before the database is
\* provisioned.
ProgramConfigBeforeDatabase ==
    SystemUpdateStage \o NginxStage \o DatabaseStage \o PhpStage \o WordpressStage
    \o WpConfigStage \o DbConfigStage \o NginxConfigStage \o WpInstallStage
    \o SecurityStage \o SslStage \o CompleteStage

\* wordpress.ts 86-453: the body of the try block
Program ==
    SystemUpdateStage \o NginxStage \o DatabaseStage \o PhpStage \o DbConfigStage
    \o WordpressStage \o WpConfigStage \o NginxConfigStage \o WpInstallStage
    \o SecurityStage \o SslStage \o CompleteStage

---------------------------------------------------------------------------
(* wordpress.ts: locals, conditions and command arguments *)

\* Variant of effectiveSshPort that ignores the port it is given.
effectiveSshPortDefault(sshPort) == DefaultPort

\* wordpress.ts 83
effectiveSshPort(sshPort) ==
    IF sshPort >= MinPort /\ sshPort <= MaxPort THEN sshPort ELSE DefaultPort

\* installWordPress locals before the try block (wordpress.ts 60-84); a probe
\* result not yet assigned is -1 (an exit code) or "" (a lookup's stdout)
InitLocals(dbPassword, adminPassword, sshPort) ==
    [ dbPassword |-> dbPassword,
      adminPassword |-> adminPassword,
      effectiveSshPort |-> effectiveSshPort(sshPort),
      sslInstalled |-> FALSE,
      nginxCheck |-> -1, dbCheck |-> -1, fastcgiSnippetCheck |-> -1,
      wpCliCheck |-> -1, ufwCheck |-> -1,
      apexDns |-> "", wwwDns |-> "", certResult |-> -1,
      siteUrlUpdate |-> -1, homeUrlUpdate |-> -1 ]

NoLocals == InitLocals(0, 0, 0)

\* the conditions of the if statements of installWordPress
Cond(c, l, ssl) ==
    CASE c = "nginxCheck" -> l.nginxCheck # 0
      [] c = "dbCheck" -> l.dbCheck # 0
      [] c = "wpCliCheck" -> l.wpCliCheck # 0
      [] c = "ufwCheck" -> l.ufwCheck # 0
      [] c = "enableSSL" -> ssl
      [] c = "certResult" -> l.certResult # 0
      [] c = "urlsUpdated" -> l.siteUrlUpdate = 0 /\ l.homeUrlUpdate = 0

\* Variant of certDomains that always names www.
certDomainsAlwaysWww(apexDns, wwwDns) == 2

\* wordpress.ts 397-400: the number of -d names of the certbot command
\* (1: the bare domain, 2: the bare domain and www)
certDomains(apexDns, wwwDns) ==
    IF wwwDns # "" /\ apexDns # "" /\ wwwDns = apexDns THEN 2 ELSE 1

\* Variant of CmdArg whose site configuration always includes the snippet.
CmdArgAlwaysSnippet(i, l) ==
    CASE i.arg = "" -> 0
      [] i.arg = "dbPassword" -> l.dbPassword
      [] i.arg = "adminPassword" -> l.adminPassword
      [] i.arg = "effectiveSshPort" -> l.effectiveSshPort
      [] i.arg = "80" -> 80
      [] i.arg = "443" -> 443
      [] i.arg = "phpLocationBlock" -> 1
      [] i.arg = "certDomains" -> certDomains(l.apexDns, l.wwwDns)

\* the value interpolated into a command's text; for the site configuration,
\* 1: the php location block includes snippets/fastcgi-php.conf, 0: it holds
\* the inline equivalent (wordpress.ts 252-261)
CmdArg(i, l) ==
    CASE i.arg = "" -> 0
      [] i.arg = "dbPassword" -> l.dbPassword
      [] i.arg = "adminPassword" -> l.adminPassword
      [] i.arg = "effectiveSshPort" -> l.effectiveSshPort
      [] i.arg = "80" -> 80
      [] i.arg = "443" -> 443
      [] i.arg = "phpLocationBlock" -> (IF l.fastcgiSnippetCheck = 0 THEN 1 ELSE 0)
      [] i.arg = "certDomains" -> certDomains(l.apexDns, l.wwwDns)

\* what a probe keeps of the command's result: the stdout of a DNS lookup,
\* the exit code of any other command
StoreResult(l, i, code, out) ==
    IF i.reg = "" THEN l
    ELSE IF i.reg \in {"apexDns", "wwwDns"} THEN [l EXCEPT ![i.reg] = out]
    ELSE [l EXCEPT ![i.reg] = code]

---------------------------------------------------------------------------
(* route.ts: the event stream *)

\* controller.enqueue threw: the sink is not writable (route.ts 217-220,
\* 248-250); the log keeps the refused write
Refused(f, step) == [f EXCEPT !.log = Append(@, [kind |-> "refused", step |-> step])]

\* Variant of sendEvent that does not remember a refused write.
sendEventNoClose(f, step, status, msg) ==
    LET g == [f EXCEPT !.log = Append(@, [kind |-> "event", step |-> step,
                                          status |-> status, msg |-> msg])]
    IN  IF g.cc THEN g
        ELSE IF writable
            THEN [g EXCEPT !.stream = Append(@, [step |-> step, status |-> status,
                                                  msg |-> msg])]
            ELSE Refused(g, step)

\* route.ts 212-221.  f is the frame of the running turn:
\* [pc, log, stream, cc (controllerClosed), locals].  The log keeps every
\* call, the stream what was enqueued.
sendEvent(f, step, status, msg) ==
    LET g == [f EXCEPT !.log = Append(@, [kind |-> "event", step |-> step,
                                          status |-> status, msg |-> msg])]
    IN  IF g.cc THEN g
        ELSE IF writable
            THEN [g EXCEPT !.stream = Append(@, [step |-> step, status |-> status,
                                                  msg |-> msg])]
            ELSE [Refused(g, step) EXCEPT !.cc = TRUE]

---------------------------------------------------------------------------
(* wordpress.ts: running the program up to the next await *)

RECURSIVE Exec(_)
\* executes the instructions from f.pc on, until a command is issued (the
\* frame then stands at that "run" instruction) or the success return
Exec(f) ==
    LET i == Program[f.pc]
    IN  CASE i.op = "emit" ->
                Exec(sendEvent([f EXCEPT !.pc = @ + 1], i.step, i.status, i.msg))
          [] i.op = "if" ->
                Exec([f EXCEPT !.pc = IF Cond(i.cond, f.locals, enableSSL)
                                      THEN @ + 1 ELSE @ + 1 + i.n])
          [] i.op = "skip" -> Exec([f EXCEPT !.pc = @ + 1 + i.n])
          [] i.op = "set" ->
                Exec([f EXCEPT !.pc = @ + 1, !.locals.sslInstalled = TRUE])
          [] i.op = "run" ->
                [f EXCEPT !.log = Append(@, [kind |-> "issue", stage |-> i.stage,
                                             cmd |-> i.cmd,
                                             arg |-> CmdArg(i, f.locals)])]
          [] i.op = "return" -> f

NoResult ==
    [returned |-> FALSE, success |-> FALSE, sslInstalled |-> FALSE,
     adminPassword |-> 0, dbPassword |-> 0, error |-> ""]

\* Variant of InstallReturn that reports TLS as installed whenever it was
\* requested.
InstallReturnAsRequested(f) ==
    [returned |-> TRUE, success |-> TRUE, sslInstalled |-> enableSSL,
     adminPassword |-> f.locals.adminPassword, dbPassword |-> f.locals.dbPassword,
     error |-> ""]

\* wordpress.ts 446-453
InstallReturn(f) ==
    [returned |-> TRUE, success |-> TRUE, sslInstalled |-> f.locals.sslInstalled,
     adminPassword |-> f.locals.adminPassword, dbPassword |-> f.locals.dbPassword,
     error |-> ""]

\* Variant of InstallFailure that drops the error's message.
InstallFailureNoMessage(msg) ==
    [returned |-> TRUE, success |-> FALSE, sslInstalled |-> FALSE,
     adminPassword |-> 0, dbPassword |-> 0, error |-> "Installation failed"]

\* wordpress.ts 454-467: the value returned by the catch block
InstallFailure(msg) ==
    [returned |-> TRUE, success |-> FALSE, sslInstalled |-> FALSE,
     adminPassword |-> 0, dbPassword |-> 0, error |-> msg]

\* wordpress.ts 454-456: the catch block's progress event
InstallCatch(f, msg) == sendEvent(f, "error", "failed", msg)

\* Variant of RouteAfterInstall whose completion record always has an http://
\* siteUrl.
RouteAfterInstallAlwaysHttp(f, res) ==
    IF res.success
    THEN LET completionData ==
                 [step |-> "done", status |-> "completed", msg |-> "Installation complete!",
                  siteUrl |-> "http", adminUrl |-> "http",
                  adminPassword |-> res.adminPassword,
                  dbPassword |-> res.dbPassword, sslRequested |-> enableSSL,
                  sslEnabled |-> res.sslInstalled]
         IN  IF f.cc THEN f
             ELSE IF writable THEN [f EXCEPT !.stream = Append(@, completionData)]
             ELSE [Refused(f, "done") EXCEPT !.cc = TRUE]
    ELSE sendEvent(f, "error", "failed",
                   IF res.error = "" THEN "Installation failed" ELSE res.error)

\* route.ts 232-259
RouteAfterInstall(f, res) ==
    IF res.success
    THEN LET protocol == IF res.sslInstalled THEN "https" ELSE "http"
             completionData ==
                 [step |-> "done", status |-> "completed", msg |-> "Installation complete!",
                  siteUrl |-> protocol, adminUrl |-> protocol,
                  adminPassword |-> res.adminPassword,
                  dbPassword |-> res.dbPassword, sslRequested |-> enableSSL,
                  sslEnabled |-> res.sslInstalled]
         IN  IF f.cc THEN f
             ELSE IF writable THEN [f EXCEPT !.stream = Append(@, completionData)]
             ELSE [Refused(f, "done") EXCEPT !.cc = TRUE]
    ELSE sendEvent(f, "error", "failed",
                   IF res.error = "" THEN "Installation failed" ELSE res.error)

---------------------------------------------------------------------------
(* The SSH session and the remote host *)

\* conn before createSSHConnection resolves (route.ts 223: conn = null)
NoConn ==
    [resolved |-> FALSE, open |-> FALSE, port |-> 0, endCalls |-> 0, closeCount |-> 0]

\* ssh.ts 104-132: the session createSSHConnection resolves with, opened on
\* config.port
createSSHConnection(port) ==
    [resolved |-> TRUE, open |-> TRUE, port |-> port, endCalls |-> 0, closeCount |-> 0]

\* ssh2 Client.end(): closes an open session, does nothing on a closed one
connEnd(c) ==
    [c EXCEPT !.endCalls = @ + 1, !.open = FALSE,
              !.closeCount = IF c.open THEN @ + 1 ELSE @]

\* ssh.ts 180-186: the command timer ends the connection
TimerEnd(c) == connEnd(c)

\* Variant of RouteFinally that leaves the session alone.
RouteFinallyNoEnd(c) == c

\* route.ts 264: if (conn) conn.end()
RouteFinally(c) == IF c.resolved THEN connEnd(c) ELSE c

\* Variant of Throws that accepts every exit code.
ThrowsNever(i, code) == FALSE

\* wordpress.ts 39-41: runCheckedCommand throws on a non-zero exit code; the
\* error's message begins with the command's context string (i.ctx)
Throws(i, code) == i.checked /\ code # 0

\* the exit codes the host may answer a command with
ExitCodes(i) == {0, 1}

\* the stdout the host may answer with: an address, or nothing, for the two
\* lookups (the bare domain has one address up to renaming, www has the same
\* one or another)
Outputs(i) ==
    IF i.cmd = "getent apex" THEN {"", "198.51.100.1"}
    ELSE IF i.cmd = "getent www" THEN {"", "198.51.100.1", "198.51.100.2"}
    ELSE {""}

\* a fresh host: no database user, no wp-config.php, no WordPress admin, no
\* stored siteurl and home options
FreshHost ==
    [dbUserPw |-> 0, wpConfigPw |-> 0, wpAdminPw |-> 0, siteurl |-> "", home |-> ""]

\* wordpress.ts 183, 188: the scratch artifacts of the download
ScratchPaths == {"/tmp/wordpress", "/tmp/wordpress.tar.gz"}

\* the paths a command deletes ("wpDir/*": the contents of the install
\* directory /var/www/<domain>)
RemovedBy(cmd) ==
    CASE cmd \in {"rm -rf scratch (before)", "rm -rf scratch (after)"} -> ScratchPaths
      [] cmd = "find wpDir -exec rm -rf" -> {"wpDir/*"}
      [] cmd = "rm -f default site" -> {"/etc/nginx/sites-enabled/default"}
      [] cmd = "rm -f wp-cli.phar" -> {"/tmp/wp-cli.phar"}
      [] OTHER -> {}

\* what a command that ran to its end leaves on the host:
\*   CREATE USER IF NOT EXISTS ... IDENTIFIED BY (wordpress.ts 171) sets the
\*   password only when the user does not exist yet;
\*   tee wp-config.php (wordpress.ts 240-244) overwrites the file;
\*   wp core install (wordpress.ts 329-342) creates the admin and stores the
\*   http:// URL only on a site that is not installed yet;
\*   wp option update siteurl / home (wordpress.ts 418-427) store the https://
\*   URL;
\*   a command that deletes the contents of the install directory deletes
\*   wp-config.php with them (cp -a of the archive, wordpress.ts 187, brings
\*   no wp-config.php)
HostAfter(i, h, l) ==
    CASE i.cmd = "CREATE USER IF NOT EXISTS" ->
            [h EXCEPT !.dbUserPw = IF @ = 0 THEN l.dbPassword ELSE @]
      [] i.cmd = "tee wp-config.php" -> [h EXCEPT !.wpConfigPw = l.dbPassword]
      [] i.cmd = "wp core install" ->
            IF h.wpAdminPw = 0
            THEN [h EXCEPT !.wpAdminPw = l.adminPassword, !.siteurl = "http",
                           !.home = "http"]
            ELSE h
      [] i.cmd = "wp option update siteurl" -> [h EXCEPT !.siteurl = "https"]
      [] i.cmd = "wp option update home" -> [h EXCEPT !.home = "https"]
      [] "wpDir/*" \in RemovedBy(i.cmd) -> [h EXCEPT !.wpConfigPw = 0]
      [] OTHER -> h

\* the stages whose 'completed' event a run's log holds
CompletedStages(l) ==
    { l[k].step : k \in { j \in DOMAIN l : l[j].kind = "event" /\ l[j].status = "completed" } }

\* the stages that leave on the host what a later run meets: the database
\* user, wp-config.php, the installed site
HostStages == {"db-config", "wp-config", "wp-install"}

---------------------------------------------------------------------------
(* Actions *)

Frame == [pc |-> pc, log |-> log, stream |-> stream, cc |-> controllerClosed,
          locals |-> locals]

\* the turn ends at an await: the program waits for the issued command
Await(f) ==
    /\ phase' = "running"
    /\ pc' = f.pc
    /\ log' = f.log
    /\ stream' = f.stream
    /\ controllerClosed' = f.cc
    /\ locals' = f.locals
    /\ UNCHANGED << result >>

\* route.ts 232-269: installWordPress returned res; the completion or error
\* record, then the finally block on session c
Finish(f, res, c) ==
    LET g == RouteAfterInstall(f, res)
    IN  /\ phase' = "closed"
        /\ pc' = g.pc
        /\ log' = g.log
        /\ stream' = g.stream
        /\ controllerClosed' = TRUE
        /\ locals' = g.locals
        /\ result' = res
        /\ conn' = RouteFinally(c)

\* installWordPress runs on from frame f (wordpress.ts 86-453)
Turn(f) ==
    LET g == Exec(f)
    IN  IF Program[g.pc].op = "return"
        THEN Finish(g, InstallReturn(g), conn)
        ELSE Await(g) /\ UNCHANGED conn

\* route.ts 206-227: the stream starts; 'connecting' is sent and the
\* connection attempt begins
StartStream(port, ssl) ==
    /\ phase' = "connecting"
    /\ response' = [status |-> 200, error |-> ""]
    /\ serverPort' = port
    /\ enableSSL' = ssl
    /\ conn' = NoConn
    /\ writable' = TRUE
    /\ controllerClosed' = FALSE
    /\ stream' = << [step |-> "connecting", status |-> "running",
                     msg |-> "Connecting to server..."] >>
    /\ log' = << [kind |-> "event", step |-> "connecting", status |-> "running",
                  msg |-> "Connecting to server..."] >>
    /\ pc' = 0
    /\ locals' = NoLocals
    /\ result' = NoResult

\* route.ts 124-204: POST up to the stream, for a body of the set bodies
PostFrom(bodies) ==
    /\ phase = "idle"
    /\ runs' = 1
    /\ UNCHANGED << host, prior, attempt, probe, request, gen, sites, exec >>
    /\ \E body \in bodies, importOk \in BOOLEAN :
          IF ValidationError(body) # ""
          THEN /\ phase' = "rejected"
               /\ response' = [status |-> 400, error |-> ValidationError(body)]
               /\ UNCHANGED << serverPort, enableSSL, conn, writable, controllerClosed,
                               stream, log, pc, locals, result >>
          ELSE IF ~importOk
          THEN /\ phase' = "rejected"
               /\ response' = [status |-> 500, error |-> "Server setup error"]
               /\ UNCHANGED << serverPort, enableSSL, conn, writable, controllerClosed,
                               stream, log, pc, locals, result >>
          ELSE StartStream(parsePort(body.port), body.enableSSL)

Post == PostFrom(Bodies)

PostTls == PostFrom(TlsBodies)

PostFirst == PostFrom(RerunBodies)

\* route.ts 227-230: createSSHConnection resolved; installWordPress starts and
\* runs to its first command
ConnectReady ==
    /\ phase = "connecting"
    /\ \E dbPassword \in 1..NumPasswords, adminPassword \in 1..NumPasswords :
          LET f0 == sendEvent(Frame, "connecting", "completed", "Connected to server")
              f1 == [f0 EXCEPT !.pc = 1,
                               !.locals = InitLocals(dbPassword, adminPassword, serverPort)]
              g == Exec(f1)
          IN  Await(g)
    /\ conn' = createSSHConnection(serverPort)
    /\ UNCHANGED << response, serverPort, enableSSL, writable, host, prior, runs,
                    attempt, probe, request, gen, sites, exec >>

\* Variant of ConnectFail that reports the connection as made before it
\* reports the failure.
ConnectFailAfterCompleted ==
    /\ phase = "connecting"
    /\ LET f == sendEvent(Frame, "connecting", "completed", "Connected to server")
           g == sendEvent(f, "error", "failed", "SSH connection failed")
       IN  /\ phase' = "closed"
           /\ log' = g.log
           /\ stream' = g.stream
           /\ controllerClosed' = TRUE
           /\ conn' = RouteFinally(conn)
    /\ UNCHANGED << response, serverPort, enableSSL, writable, pc, locals, result,
                    host, prior, runs, attempt, probe, request, gen, sites, exec >>

\* route.ts 260-269: createSSHConnection rejected
ConnectFail ==
    /\ phase = "connecting"
    /\ LET g == sendEvent(Frame, "error", "failed", "SSH connection failed")
       IN  /\ phase' = "closed"
           /\ log' = g.log
           /\ stream' = g.stream
           /\ controllerClosed' = TRUE
           /\ conn' = RouteFinally(conn)
    /\ UNCHANGED << response, serverPort, enableSSL, writable, pc, locals, result,
                    host, prior, runs, attempt, probe, request, gen, sites, exec >>

\* ssh.ts 155-158, 190-195: the remote process reports close; the timer is
\* cleared and the awaiting code runs on
CommandClose ==
    /\ phase = "running"
    /\ LET i == Program[pc]
       IN  \E code \in ExitCodes(i), out \in Outputs(i) :
             LET f == [Frame EXCEPT !.log = Append(@, [kind |-> "exit", stage |-> i.stage,
                                                        cmd |-> i.cmd,
                                                        arg |-> CmdArg(i, locals),
                                                        code |-> code, out |-> out])]
             IN  /\ host' = IF code = 0 THEN HostAfter(i, host, locals) ELSE host
                 /\ IF Throws(i, code)
                    THEN Finish(InstallCatch(f, i.ctx), InstallFailure(i.ctx), conn)
                    ELSE Turn([f EXCEPT !.pc = @ + 1,
                                        !.locals = StoreResult(@, i, code, out)])
    /\ UNCHANGED << response, serverPort, enableSSL, writable, prior, runs,
                    attempt, probe, request, gen, sites, exec >>

\* Variant of CommandTimeout in which the awaiting code takes the timeout for
\* a non-zero exit and runs on.
CommandTimeoutRunsOn ==
    /\ phase = "running"
    /\ LET i == Program[pc]
           f == [Frame EXCEPT !.log = Append(@, [kind |-> "timeout", stage |-> i.stage,
                                                  cmd |-> i.cmd,
                                                  arg |-> CmdArg(i, locals)])]
       IN  /\ host' = host
           /\ IF i.checked
              THEN Finish(InstallCatch(f, "Command timed out"),
                          InstallFailure("Command timed out"), TimerEnd(conn))
              ELSE Turn([f EXCEPT !.pc = @ + 1, !.locals = StoreResult(@, i, 1, "")])
    /\ UNCHANGED << response, serverPort, enableSSL, writable, prior, runs,
                    attempt, probe, request, gen, sites, exec >>

\* ssh.ts 180-188: the command's timer fires first; the connection is ended
\* and the awaiting code sees the rejection.  What the command did on the
\* host by then is not known.
CommandTimeout ==
    /\ phase = "running"
    /\ LET i == Program[pc]
           f == [Frame EXCEPT !.log = Append(@, [kind |-> "timeout", stage |-> i.stage,
                                                  cmd |-> i.cmd,
                                                  arg |-> CmdArg(i, locals)])]
       IN  /\ host' \in {host, HostAfter(i, host, locals)}
           /\ Finish(InstallCatch(f, "Command timed out"),
                     InstallFailure("Command timed out"), TimerEnd(conn))
    /\ UNCHANGED << response, serverPort, enableSSL, writable, prior, runs,
                    attempt, probe, request, gen, sites, exec >>

\* ssh.ts 137, 162-164, 196-200: conn.exec or the command's stream reports an
\* error; the timer is cleared and the awaiting code sees the rejection
CommandError ==
    /\ phase = "running"
    /\ LET i == Program[pc]
           f == [Frame EXCEPT !.log = Append(@, [kind |-> "reject", stage |-> i.stage,
                                                  cmd |-> i.cmd,
                                                  arg |-> CmdArg(i, locals)])]
       IN  Finish(InstallCatch(f, "SSH channel error"),
                  InstallFailure("SSH channel error"), conn)
    /\ UNCHANGED << response, serverPort, enableSSL, writable, host, prior, runs,
                    attempt, probe, request, gen, sites, exec >>

\* the same request is posted again against the same host
\* (route.ts 124-227 with the body of the previous request)
Repost ==
    /\ phase = "closed"
    /\ runs < MaxRuns
    /\ runs' = runs + 1
    /\ StartStream(serverPort, enableSSL)
    /\ prior' = prior \cup (CompletedStages(log) \cap HostStages)
    /\ UNCHANGED << host, attempt, probe, request, gen, sites, exec >>

\* the observer goes away: from now on controller.enqueue throws
\* (route.ts 217-220)
Disconnect ==
    /\ phase \in {"connecting", "running"}
    /\ writable
    /\ writable' = FALSE
    /\ UNCHANGED << phase, response, serverPort, enableSSL, conn, controllerClosed,
                    stream, log, pc, locals, result, host, prior, runs, attempt, probe, request, gen, sites, exec >>

---------------------------------------------------------------------------
(* test-connection/route.ts: the connectivity probe.  The model follows one *)
(* probe request, posted while no install request is in flight.             *)

\* the probe's request bodies
ProbeBodies ==
    [ host : {"", "bad host", "203.0.113.7"},
      username : {"", "root"},
      port : PortInputs,
      authMethod : {"password", "key"},
      password : {"", "secret"},
      privateKey : {"", "KEY"} ]

\* test-connection/route.ts 32-58: the first failing check's message
ProbeValidationError(body) ==
    IF ~isValidHost(body.host) \/ body.username = ""
        THEN "Host and username are required"
    ELSE IF parsePort(body.port) = 0
        THEN "Port must be an integer between 1 and 65535"
    ELSE IF body.authMethod = "password" /\ body.password = ""
        THEN "Password is required for password authentication"
    ELSE IF body.authMethod = "key" /\ body.privateKey = ""
        THEN "Private key is required for key authentication"
    ELSE ""

\* test-connection/route.ts 79-81: the three host-information commands
ProbeCommands == {"lsb_release", "free", "df"}

NoServer == [os |-> "", memory |-> "", diskFree |-> ""]

\* the probe before its request: no session, no command, no response
NoProbe ==
    [phase |-> "idle", port |-> 0, open |-> FALSE, endCalls |-> 0,
     cmds |-> [c \in ProbeCommands |-> "none"],
     stdout |-> [c \in ProbeCommands |-> ""],
     response |-> [status |-> 0, success |-> FALSE, error |-> "", server |-> NoServer]]

\* NextResponse.json of the probe; the route's finally block has run
ProbeRespond(p, status, success, error, server) ==
    [p EXCEPT !.phase = "responded",
              !.response = [status |-> status, success |-> success, error |-> error,
                            server |-> server]]

\* conn.end() on the probe's session
probeEnd(p) == [p EXCEPT !.endCalls = @ + 1, !.open = FALSE]

\* test-connection/route.ts 89-91: stdout || 'Unknown'
OrUnknown(text) == IF text = "" THEN "Unknown" ELSE text

ProbeFrame ==
    << phase, response, serverPort, enableSSL, conn, writable, controllerClosed,
       stream, log, pc, locals, result, host, prior, runs, attempt, request,
       gen, sites, exec >>

\* test-connection/route.ts 14-75: POST up to the connection attempt
ProbePost ==
    /\ phase = "idle"
    /\ probe.phase = "idle"
    /\ \E body \in ProbeBodies, importOk \in BOOLEAN :
          probe' =
            IF ProbeValidationError(body) # ""
            THEN ProbeRespond(probe, 400, FALSE, ProbeValidationError(body), NoServer)
            ELSE IF ~importOk
            THEN ProbeRespond(probe, 500, FALSE, "module load failed", NoServer)
            ELSE [probe EXCEPT !.phase = "connecting", !.port = parsePort(body.port)]
    /\ UNCHANGED ProbeFrame

\* test-connection/route.ts 75-82: createSSHConnection resolved; the three
\* commands are issued through execCommand, one after the other in the same
\* turn, and joined by Promise.all
ProbeConnectReady ==
    /\ probe.phase = "connecting"
    /\ probe' = [probe EXCEPT !.phase = "probing", !.open = TRUE,
                              !.cmds = [c \in ProbeCommands |-> "pending"]]
    /\ UNCHANGED ProbeFrame

\* test-connection/route.ts 94-108: createSSHConnection rejected (an 'error'
\* or 'close' of the client, or the attempt's timer); conn is still null
ProbeConnectFail ==
    /\ probe.phase = "connecting"
    /\ probe' = ProbeRespond(probe, 500, FALSE, "SSH connection failed", NoServer)
    /\ UNCHANGED ProbeFrame

\* ssh.ts 155-158: the remote process of command c reports close and
\* execCommand resolves; test-connection/route.ts 84-93 once all three did
ProbeCommandClose ==
    /\ probe.phase = "probing"
    /\ \E c \in ProbeCommands, text \in {"", "text"} :
          /\ probe.cmds[c] = "pending"
          /\ LET p == [probe EXCEPT !.cmds[c] = "resolved", !.stdout[c] = text]
             IN  probe' =
                   IF \A d \in ProbeCommands : p.cmds[d] = "resolved"
                   THEN ProbeRespond(probeEnd(probeEnd(p)), 200, TRUE, "",
                                     [os |-> OrUnknown(p.stdout["lsb_release"]),
                                      memory |-> OrUnknown(p.stdout["free"]),
                                      diskFree |-> OrUnknown(p.stdout["df"])])
                   ELSE p
    /\ UNCHANGED ProbeFrame

\* Variant of ProbeCommandError without the finally block: the session stays
\* open.
ProbeCommandErrorNoEnd ==
    /\ probe.phase = "probing"
    /\ \E c \in ProbeCommands :
          /\ probe.cmds[c] = "pending"
          /\ probe' = ProbeRespond([probe EXCEPT !.cmds[c] = "rejected"],
                                   500, FALSE, "SSH channel error", NoServer)
    /\ UNCHANGED ProbeFrame

\* ssh.ts 137, 162-164: conn.exec or the stream of command c reports an
\* error; Promise.all rejects; test-connection/route.ts 94-108
ProbeCommandError ==
    /\ probe.phase = "probing"
    /\ \E c \in ProbeCommands :
          /\ probe.cmds[c] = "pending"
          /\ probe' = ProbeRespond(probeEnd([probe EXCEPT !.cmds[c] = "rejected"]),
                                   500, FALSE, "SSH channel error", NoServer)
    /\ UNCHANGED ProbeFrame

ProbeRun ==
    \/ ProbeConnectReady
    \/ ProbeConnectFail
    \/ ProbeCommandClose
    \/ ProbeCommandError

\* no install request drawn: every field absent
NoRequest ==
    [host |-> "", username |-> "", domain |-> "", port |-> NoPort,
     authMethod |-> "", password |-> "", privateKey |-> "", adminUserOk |-> FALSE,
     adminEmailOk |-> FALSE, phpVersion |-> "absent", enableSSL |-> FALSE]

---------------------------------------------------------------------------
(* ssh.ts: createSSHConnection.  The file holds three definitions of it     *)
(* (at lines 4, 76 and 207); an attempt is one call of one of them.  The    *)
(* ssh2 client delivers 'ready', 'error' and 'close'; the model delivers    *)
(* each of them at most once, so that .once and .on handlers coincide.      *)

\* the definitions of createSSHConnection, named by their first line
Definitions == {4, 76, 207}

\* no call of createSSHConnection
NoAttempt ==
    [def |-> 0, port |-> 0, settled |-> FALSE, promise |-> "none", reason |-> "",
     timeout |-> "none", endCalls |-> 0, sock |-> "none", trace |-> << >>]

\* the state of a call once the executor of its promise has run: the timer
\* is armed (no timer in the definition at line 4), the client is connecting
\* to config.port
NewAttempt(d, port) ==
    [def |-> d, port |-> port, settled |-> FALSE, promise |-> "pending", reason |-> "",
     timeout |-> IF d = 4 THEN "none" ELSE "armed", endCalls |-> 0,
     sock |-> "connecting", trace |-> << >>]

\* Promise resolve: settles a pending promise, does nothing to a settled one
resolve(a) ==
    [a EXCEPT !.trace = Append(@, "resolve"),
              !.promise = IF @ = "pending" THEN "resolved" ELSE @]

\* Promise reject, with the error's message
reject(a, why) ==
    [a EXCEPT !.trace = Append(@, "reject"),
              !.promise = IF @ = "pending" THEN "rejected" ELSE @,
              !.reason = IF a.promise = "pending" THEN why ELSE @]

\* clearTimeout(timeout): a timer that has not fired never fires
clearTimeout(a) == [a EXCEPT !.timeout = IF @ = "armed" THEN "cleared" ELSE @]

\* conn.end() on the client of the attempt
attemptEnd(a) == [a EXCEPT !.endCalls = @ + 1, !.trace = Append(@, "end")]

\* ssh.ts 81-86
resolveOnce(a) ==
    IF a.settled THEN a
    ELSE resolve(clearTimeout([a EXCEPT !.settled = TRUE]))

\* Variant of rejectOnce without the settled flag.
rejectOnceUnguarded(a, why) == reject(clearTimeout(a), why)

\* ssh.ts 88-93
rejectOnce(a, why) ==
    IF a.settled THEN a
    ELSE reject(clearTimeout([a EXCEPT !.settled = TRUE]), why)

\* the 'ready' handler: ssh.ts 23, 119-121, 231-234
onReady(a) ==
    CASE a.def = 4 -> resolve(a)
      [] a.def = 76 -> resolveOnce(a)
      [] a.def = 207 -> resolve(clearTimeout(a))

\* the 'error' handler: ssh.ts 24, 122-124, 235-238
onError(a) ==
    CASE a.def = 4 -> reject(a, "error")
      [] a.def = 76 -> rejectOnce(a, "error")
      [] a.def = 207 -> reject(clearTimeout(a), "error")

\* the 'close' handler: none at line 4; ssh.ts 125-129, 239-241
onClose(a) ==
    CASE a.def = 4 -> a
      [] a.def = 76 ->
            IF ~a.settled
            THEN rejectOnce(a, "SSH connection closed before becoming ready")
            ELSE a
      [] a.def = 207 -> clearTimeout(a)

\* the timer's callback: ssh.ts 95-102, 211-214
onTimeout(a) ==
    CASE a.def = 76 -> rejectOnce(attemptEnd(a), "SSH connection timed out after 20 seconds")
      [] a.def = 207 -> reject(attemptEnd(a), "SSH connection timed out after 20 seconds")

\* the attempt once an event of its client is delivered, before the handler runs
Delivered(event, sock) ==
    [attempt EXCEPT !.sock = sock, !.trace = Append(@, event)]

AttemptFrame ==
    << phase, response, serverPort, enableSSL, conn, writable, controllerClosed,
       stream, log, pc, locals, result, host, prior, runs, probe, request,
       gen, sites, exec >>

\* the client reports 'ready' (the handshake and the authentication succeeded)
AttemptReady ==
    /\ attempt.sock = "connecting"
    /\ attempt' = onReady(Delivered("ready", "ready"))
    /\ UNCHANGED AttemptFrame

\* the client reports 'error' (authentication, network, handshake timeout)
AttemptError ==
    /\ attempt.sock \in {"connecting", "ready"}
    /\ \A k \in DOMAIN attempt.trace : attempt.trace[k] # "error"
    /\ attempt' = onError(Delivered("error", attempt.sock))
    /\ UNCHANGED AttemptFrame

\* the client reports 'close' (the socket is gone)
AttemptClose ==
    /\ attempt.sock \in {"connecting", "ready"}
    /\ attempt' = onClose(Delivered("close", "closed"))
    /\ UNCHANGED AttemptFrame

\* the 20 s timer of the attempt fires
AttemptTimeout ==
    /\ attempt.timeout = "armed"
    /\ attempt' = onTimeout([attempt EXCEPT !.timeout = "fired",
                                            !.trace = Append(@, "timeout")])
    /\ UNCHANGED AttemptFrame

---------------------------------------------------------------------------
(* wordpress.ts 16-18: generatePassword.  A byte is a number of 0..255, a   *)
(* base64url character is named by the six bits it stands for (0..63), a    *)
(* password is the sequence of its characters.                              *)

\* the default length (wordpress.ts 16)
DefaultPasswordLength == 24

\* generatePassword(32), the database password (wordpress.ts 75)
DbPasswordLength == 32

\* generatePassword(20), the admin password (wordpress.ts 76)
AdminPasswordLength == 20

\* generatePassword(64), a salt of wp-config.php (wordpress.ts 210)
SaltLength == 64

\* crypto.randomBytes(n): the byte strings the model draws, each an arithmetic
\* progression of bytes (first, first + step, ...) modulo 256
randomBytes(n) ==
    { [k \in 1..n |-> (first + (k - 1) * step) % 256] :
        first \in {0, 1, 127, 128, 255}, step \in {0, 1, 85, 255} }

\* Buffer.toString('base64url'): one character per six bits, the last one
\* padded with zero bits, no '=' padding.  ByteAt(k) is byte k of the string,
\* 0 past its end; character k is the six bits from bit 6(k-1) on.
toBase64url(bytes) ==
    LET ByteAt(k) == IF k \in DOMAIN bytes THEN bytes[k] ELSE 0
        Sextet(k) ==
            LET p == 6 * (k - 1)
                i == (p \div 8) + 1
                o == p % 8
            IN  CASE o = 0 -> ByteAt(i) \div 4
                  [] o = 2 -> ByteAt(i) % 64
                  [] o = 4 -> (ByteAt(i) % 16) * 4 + (ByteAt(i + 1) \div 64)
                  [] o = 6 -> (ByteAt(i) % 4) * 16 + (ByteAt(i + 1) \div 16)
    IN  [k \in 1..((8 * Len(bytes) + 5) \div 6) |-> Sextet(k)]

\* String.prototype.slice(0, n) for n >= 0
slice(s, n) == SubSeq(s, 1, IF n < Len(s) THEN n ELSE Len(s))

\* wordpress.ts 17, on the bytes randomBytes(length) returned
generatePassword(length, bytes) == slice(toBase64url(bytes), length)

\* no call of generatePassword
NoGen == [phase |-> "none", length |-> 0, bytes |-> << >>, value |-> << >>]

\* generatePassword returns
GeneratePassword ==
    /\ gen.phase = "called"
    /\ gen' = [gen EXCEPT !.phase = "returned",
                          !.value = generatePassword(gen.length, gen.bytes)]
    /\ UNCHANGED << phase, response, serverPort, enableSSL, conn, writable,
                    controllerClosed, stream, log, pc, locals, result, host, prior,
                    runs, attempt, probe, request, sites, exec >>

---------------------------------------------------------------------------
(* validation.ts 1, 42-57 and wordpress.ts 20-22, 60-74, 168-179: from the  *)
(* posted domain to the identifiers of the site's database.  A string is    *)
(* the sequence of its characters.                                          *)

LowerCase ==
    << "a", "b", "c", "d", "e", "f", "g", "h", "i", "j", "k", "l", "m",
       "n", "o", "p", "q", "r", "s", "t", "u", "v", "w", "x", "y", "z" >>

UpperCase ==
    << "A", "B", "C", "D", "E", "F", "G", "H", "I", "J", "K", "L", "M",
       "N", "O", "P", "Q", "R", "S", "T", "U", "V", "W", "X", "Y", "Z" >>

\* [a-z]
IsLower(c) == \E k \in DOMAIN LowerCase : LowerCase[k] = c

\* [a-z0-9]
IsLowerAlnum(c) ==
    IsLower(c) \/ c \in {"0", "1", "2", "3", "4", "5", "6", "7", "8", "9"}

\* [a-zA-Z0-9]
IsAlnum(c) == IsLowerAlnum(c) \/ \E k \in DOMAIN UpperCase : UpperCase[k] = c

\* String.prototype.toLowerCase
toLowerCase(s) ==
    [k \in DOMAIN s |->
        IF \E j \in DOMAIN UpperCase : UpperCase[j] = s[k]
        THEN LowerCase[CHOOSE j \in DOMAIN UpperCase : UpperCase[j] = s[k]]
        ELSE s[k]]

\* String.prototype.trim
trim(s) ==
    LET inked == { k \in DOMAIN s : s[k] \notin {" ", "\t", "\n"} }
    IN  IF inked = {} THEN << >>
        ELSE SubSeq(s, CHOOSE k \in inked : \A j \in inked : k <= j,
                       CHOOSE k \in inked : \A j \in inked : j <= k)

\* validation.ts 42-53, on a string: trim, lower case, then
\*   replace(/^https?:\/\//i, ''),
\*   replace(/\/.+$/, '') (from the first slash that has a character after it),
\*   replace(/\.$/, '')
normalizeDomain(value) ==
    LET StartsWith(s, prefix) ==
            Len(s) >= Len(prefix) /\ SubSeq(s, 1, Len(prefix)) = prefix
        StripScheme(s) ==
            IF StartsWith(s, << "h", "t", "t", "p", "s", ":", "/", "/" >>)
                THEN SubSeq(s, 9, Len(s))
            ELSE IF StartsWith(s, << "h", "t", "t", "p", ":", "/", "/" >>)
                THEN SubSeq(s, 8, Len(s))
            ELSE s
        StripPath(s) ==
            LET slashes == { k \in DOMAIN s : s[k] = "/" /\ k < Len(s) }
            IN  IF slashes = {} THEN s
                ELSE SubSeq(s, 1, (CHOOSE k \in slashes : \A j \in slashes : k <= j) - 1)
        StripTrailingDot(s) ==
            IF Len(s) > 0 /\ s[Len(s)] = "." THEN SubSeq(s, 1, Len(s) - 1) ELSE s
    IN  StripTrailingDot(StripPath(StripScheme(toLowerCase(trim(value)))))

\* validation.ts 1, 55-57: DOMAIN_PATTERN.test(domain).  Labels and the
\* top-level name hold no dot, so the match is the split at the dots: one or
\* more labels, each [a-z0-9](?:[a-z0-9-]{0,61}[a-z0-9])?, then the top-level
\* name, [a-z]{2,63}.  Segments are the dot-free pieces of the string, each
\* given by the positions around it.
DOMAIN_PATTERN(s) ==
    LET marks == {0, Len(s) + 1} \cup { k \in DOMAIN s : s[k] = "." }
        Segments ==
            { << a, b >> \in marks \X marks :
                a < b /\ \A m \in marks : ~(a < m /\ m < b) }
        IsLabel(t) ==
            /\ Len(t) >= 1
            /\ Len(t) <= 63
            /\ IsLowerAlnum(t[1])
            /\ IsLowerAlnum(t[Len(t)])
            /\ \A k \in DOMAIN t : IsLowerAlnum(t[k]) \/ t[k] = "-"
        IsTopLevel(t) ==
            /\ Len(t) >= 2
            /\ Len(t) <= 63
            /\ \A k \in DOMAIN t : IsLower(t[k])
    IN  /\ Len(s) >= 1
        /\ Len(s) <= 253
        /\ \E k \in DOMAIN s : s[k] = "."
        /\ \A seg \in Segments :
              LET t == SubSeq(s, seg[1] + 1, seg[2] - 1)
              IN  IF seg[2] = Len(s) + 1 THEN IsTopLevel(t) ELSE IsLabel(t)

\* Variant of sanitizeDbName that keeps every character of the domain.
sanitizeDbNameVerbatim(domain) == slice(domain, 28)

\* wordpress.ts 20-22: replace(/[^a-zA-Z0-9]/g, '_'), replace(/^_+/, ''),
\* slice(0, 28)
sanitizeDbName(domain) ==
    LET replaced == [k \in DOMAIN domain |->
                        IF IsAlnum(domain[k]) THEN domain[k] ELSE "_"]
        kept == { k \in DOMAIN replaced : replaced[k] # "_" }
        stripped ==
            IF kept = {} THEN << >>
            ELSE SubSeq(replaced, CHOOSE k \in kept : \A j \in kept : k <= j,
                        Len(replaced))
    IN  slice(stripped, 28)

\* wordpress.ts 72
dbSuffix(domain) ==
    IF sanitizeDbName(domain) = << >> THEN << "s", "i", "t", "e" >>
    ELSE sanitizeDbName(domain)

\* wordpress.ts 73
dbName(domain) == slice(<< "w", "p", "_" >> \o dbSuffix(domain), 64)

\* wordpress.ts 74
dbUser(domain) == slice(<< "w", "p", "_" >> \o dbSuffix(domain), 32)

\* posted values that normalizeDomain changes, and domains longer than the
\* identifiers keep: upper case, white space, a scheme, a path, a trailing
\* dot or slash, an underscore, labels of 30, 63 and 64 characters
LongDomains ==
    LET Repeat(c, n) == [k \in 1..n |-> c]
    IN
    { << "A", ".", "A", "A" >>,
      << " ", "a", ".", "a", "a", " " >>,
      << "h", "t", "t", "p", "s", ":", "/", "/", "a", ".", "a", "a" >>,
      << "h", "t", "t", "p", ":", "/", "/", "1", ".", "a", "a" >>,
      << "a", ".", "a", "a", "/", "x" >>,
      << "a", ".", "a", "a", "." >>,
      << "a", ".", "a", "a", "/" >>,
      << "_", "a", ".", "a", "a" >>,
      << "a", "_", "a", ".", "a", "a" >>,
      Repeat("a", 30) \o << ".", "a", "a" >>,
      Repeat("a", 30) \o << ".", "a", "b" >>,
      Repeat("a", 63) \o << ".", "a", "a" >>,
      Repeat("a", 64) \o << ".", "a", "a" >>,
      Repeat("a", 30) \o << "." >> \o Repeat("1", 30) \o << "." >> \o Repeat("b", 10) }

\* the values of site.domain the model posts: every string of at most
\* MaxDomainLength characters of a, 1, - and ., and the longer ones
DomainInputs ==
    UNION { [1..n -> {"a", "1", "-", "."}] : n \in 1..MaxDomainLength } \cup LongDomains

\* the posted values installWordPress accepts
AcceptedInputs == { d \in DomainInputs : DOMAIN_PATTERN(normalizeDomain(d)) }

\* no site on the database server, no domain posted
NoSites ==
    [input |-> << >>, outcome |-> "none", provisioned |-> << >>,
     databases |-> {}, users |-> {}, grants |-> {}]

\* wordpress.ts 60-74 and, with every statement of the database stage
\* succeeding, 168-179: CREATE DATABASE IF NOT EXISTS, CREATE USER IF NOT
\* EXISTS, GRANT ALL PRIVILEGES ON dbName.* TO dbUser.  A site's record keeps
\* whether the two statements created what they name or met it.
Provision ==
    /\ sites.outcome = "posted"
    /\ LET domain == normalizeDomain(sites.input)
       IN  sites' =
             IF ~DOMAIN_PATTERN(domain)
             THEN [sites EXCEPT !.outcome = "Domain format is invalid"]
             ELSE [sites EXCEPT
                     !.outcome = "provisioned",
                     !.provisioned =
                         Append(@, [domain |-> domain,
                                    dbName |-> dbName(domain),
                                    dbUser |-> dbUser(domain),
                                    createdDatabase |-> dbName(domain) \notin sites.databases,
                                    createdUser |-> dbUser(domain) \notin sites.users]),
                     !.databases = @ \cup {dbName(domain)},
                     !.users = @ \cup {dbUser(domain)},
                     !.grants = @ \cup {<< dbUser(domain), dbName(domain) >>}]
    /\ UNCHANGED << phase, response, serverPort, enableSSL, conn, writable,
                    controllerClosed, stream, log, pc, locals, result, host, prior,
                    runs, attempt, probe, request, gen, exec >>

\* another domain is posted against the same server; a refused domain leaves
\* the server as it was, so only accepted ones are drawn
NextSite ==
    /\ sites.outcome = "provisioned"
    /\ Len(sites.provisioned) < MaxSites
    /\ \E d \in AcceptedInputs : sites' = [sites EXCEPT !.input = d, !.outcome = "posted"]
    /\ UNCHANGED << phase, response, serverPort, enableSSL, conn, writable,
                    controllerClosed, stream, log, pc, locals, result, host, prior,
                    runs, attempt, probe, request, gen, exec >>

---------------------------------------------------------------------------
(* ssh.ts 134-202 and wordpress.ts 28-44: one command run through           *)
(* runCheckedCommand (or, unchecked, through execCommandWithTimeout alone), *)
(* from conn.exec to what the observer is sent.  The handlers of a promise  *)
(* run as microtasks of the turn that settled it, before any timer or       *)
(* socket callback, so the turn of an event includes them.                  *)

\* the close event carries no exit code (ssh.ts 156: code is null or undefined)
NoCode == -1

\* the exit codes a close event may carry
SuppliedCodes == {NoCode, 0, 1, 127}

\* what the command wrote to a stream by the time it closed: nothing, white
\* space only, a line of text
RawOutputs ==
    { << >>, << " ", "\n" >>, << " ", "o", "u", "t", "\n" >> }

\* the messages of the errors the transport may report; ssh2 sets none of
\* them itself, so the empty message is among them
ErrorMessages == { << >>, << "E", "C", "O", "N", "N", "R", "E", "S", "E", "T" >> }

\* wordpress.ts 177: the context string of the database stage's commands
Context ==
    << "D", "a", "t", "a", "b", "a", "s", "e", " ", "s", "e", "t", "u",
       "p", " ", "f", "a", "i", "l", "e", "d" >>

\* ssh.ts 187: the timer's message, up to the command's text
TimedOutMessage ==
    << "C", "o", "m", "m", "a", "n", "d", " ", "t", "i", "m", "e", "d",
       " ", "o", "u", "t", " ", "a", "f", "t", "e", "r", " ", "1", "2",
       "0", "s", ":", " " >>

\* route.ts 258
InstallationFailed ==
    << "I", "n", "s", "t", "a", "l", "l", "a", "t", "i", "o", "n", " ",
       "f", "a", "i", "l", "e", "d" >>

RECURSIVE Decimal(_)
\* the decimal numeral of a natural number (the template literal's ${code})
Decimal(n) ==
    LET digits == << "0", "1", "2", "3", "4", "5", "6", "7", "8", "9" >>
    IN  IF n < 10 THEN << digits[n + 1] >>
        ELSE Decimal(n \div 10) \o << digits[(n % 10) + 1] >>

\* Variant of CodeOrZero that takes a missing exit code for a failure.
CodeOrFailure(code) == IF code = NoCode THEN 1 ELSE code

\* ssh.ts 157: code ?? 0
CodeOrZero(code) == IF code = NoCode THEN 0 ELSE code

\* Variant of CommandResult that keeps the streams as they were written.
CommandResultUntrimmed(stdout, stderr, code) ==
    [stdout |-> stdout, stderr |-> stderr, code |-> CodeOrZero(code)]

\* ssh.ts 157: the value execCommand resolves with
CommandResult(stdout, stderr, code) ==
    [stdout |-> trim(stdout), stderr |-> trim(stderr), code |-> CodeOrZero(code)]

\* wordpress.ts 28-30
commandErrorOutput(r) ==
    trim(IF r.stderr # << >> THEN r.stderr
         ELSE IF r.stdout # << >> THEN r.stdout
         ELSE << "e", "x", "i", "t", " ", "c", "o", "d", "e", " " >> \o Decimal(r.code))

\* no command
NoExec ==
    [checked |-> FALSE, channel |-> "none", settled |-> FALSE, inner |-> "none",
     timer |-> "none", timedOut |-> FALSE, outer |-> "none", outerCalls |-> 0,
     supplied |-> NoCode,
     value |-> [stdout |-> << >>, stderr |-> << >>, code |-> NoCode], reason |-> << >>,
     endCalls |-> 0, caller |-> "none", diagnostic |-> << >>, event |-> << >>,
     record |-> << >>, trace |-> << >>]

\* execCommandWithTimeout was called (ssh.ts 177-189): the timer is armed,
\* conn.exec is called, the caller awaits
NewExec(checked) ==
    [NoExec EXCEPT !.checked = checked, !.channel = "requested", !.inner = "pending",
                   !.timer = "armed", !.outer = "pending", !.caller = "awaiting"]

\* wordpress.ts 454-467 and route.ts 257-259: the catch block of
\* installWordPress sends the error's message and returns it; the route
\* sends result.error || 'Installation failed'
Caught(e, message) ==
    [e EXCEPT !.caller = "threw",
              !.event = message,
              !.record = IF message = << >> THEN InstallationFailed ELSE message]

\* wordpress.ts 38-43: runCheckedCommand after its await; an unchecked
\* command's caller keeps the result whatever its code
Resumed(e, r) ==
    IF e.checked /\ r.code # 0
    THEN Caught([e EXCEPT !.diagnostic = commandErrorOutput(r)],
                Context \o << ":", " " >> \o commandErrorOutput(r))
    ELSE [e EXCEPT !.caller = "returned"]

\* resolve of the promise of execCommandWithTimeout
outerResolve(e, r) ==
    LET f == [e EXCEPT !.outerCalls = @ + 1]
    IN  IF e.outer = "pending"
        THEN Resumed([f EXCEPT !.outer = "resolved"], r)
        ELSE f

\* reject of the promise of execCommandWithTimeout
outerReject(e, message) ==
    LET f == [e EXCEPT !.outerCalls = @ + 1]
    IN  IF e.outer = "pending"
        THEN Caught([f EXCEPT !.outer = "rejected", !.reason = message], message)
        ELSE f

\* clearTimeout(timer)
clearTimer(e) == [e EXCEPT !.timer = IF @ = "armed" THEN "cleared" ELSE @]

\* Variant of onResult that leaves the timer armed.
onResultTimerLeft(e, r) == IF e.timedOut THEN e ELSE outerResolve(e, r)

\* ssh.ts 190-195: the then handler
onResult(e, r) ==
    IF clearTimer(e).timedOut THEN clearTimer(e) ELSE outerResolve(clearTimer(e), r)

\* ssh.ts 196-200: the catch handler
onFailure(e, message) ==
    IF clearTimer(e).timedOut THEN clearTimer(e) ELSE outerReject(clearTimer(e), message)

\* ssh.ts 143-147
execResolveOnce(e, r) ==
    IF e.settled THEN e
    ELSE onResult([e EXCEPT !.settled = TRUE, !.inner = "resolved", !.value = r], r)

\* ssh.ts 149-153
execRejectOnce(e, message) ==
    IF e.settled THEN e
    ELSE onFailure([e EXCEPT !.settled = TRUE, !.inner = "rejected"], message)

\* ssh.ts 180-188: the timer's callback
onCommandTimeout(e) ==
    outerReject([e EXCEPT !.timedOut = TRUE, !.endCalls = @ + 1], TimedOutMessage)

\* the command once an event is delivered, before the handler runs
Reported(event, channel) ==
    [exec EXCEPT !.channel = channel, !.trace = Append(@, event)]

ExecFrame ==
    << phase, response, serverPort, enableSSL, conn, writable, controllerClosed,
       stream, log, pc, locals, result, host, prior, runs, attempt, probe, request,
       gen, sites >>

\* ssh.ts 136-165: conn.exec calls back with the command's stream; the
\* handlers are registered
ExecOpened ==
    /\ exec.channel = "requested"
    /\ exec' = Reported("open", "open")
    /\ UNCHANGED ExecFrame

\* ssh.ts 137: conn.exec calls back with an error
ExecRefused ==
    /\ exec.channel = "requested"
    /\ \E message \in ErrorMessages :
          exec' = onFailure([Reported("refused", "failed") EXCEPT !.inner = "rejected"],
                            message)
    /\ UNCHANGED ExecFrame

\* ssh.ts 155-158: the stream reports close, with or without an exit code
ExecClose ==
    /\ exec.channel = "open"
    /\ \E code \in SuppliedCodes, stdout \in RawOutputs, stderr \in RawOutputs :
          exec' = execResolveOnce([Reported("close", "closed") EXCEPT
                                      !.supplied = IF exec.settled THEN @ ELSE code],
                                  CommandResult(stdout, stderr, code))
    /\ UNCHANGED ExecFrame

\* ssh.ts 162-164: the stream reports an error, before or after its close
ExecStreamError ==
    /\ exec.channel \in {"open", "closed"}
    /\ \A k \in DOMAIN exec.trace : exec.trace[k] # "error"
    /\ \E message \in ErrorMessages :
          exec' = execRejectOnce(Reported("error", exec.channel), message)
    /\ UNCHANGED ExecFrame

\* ssh.ts 180-188: the timer fires
ExecTimeout ==
    /\ exec.timer = "armed"
    /\ exec' = onCommandTimeout([exec EXCEPT !.timer = "fired",
                                             !.trace = Append(@, "timeout")])
    /\ UNCHANGED ExecFrame

Init ==
    /\ phase = "idle"
    /\ response = [status |-> 0, error |-> ""]
    /\ serverPort = 0
    /\ enableSSL = FALSE
    /\ conn = NoConn
    /\ writable = TRUE
    /\ controllerClosed = FALSE
    /\ stream = << >>
    /\ log = << >>
    /\ pc = 0
    /\ locals = NoLocals
    /\ result = NoResult
    /\ host = FreshHost
    /\ prior = {}
    /\ runs = 0
    /\ attempt = NoAttempt
    /\ probe = NoProbe
    /\ request = NoRequest
    /\ gen = NoGen
    /\ sites = NoSites
    /\ exec = NoExec

\* what happens once a request was posted
Run ==
    \/ ConnectReady
    \/ ConnectFail
    \/ CommandClose
    \/ CommandTimeout
    \/ CommandError

Next == Post \/ Run

\* one request without TLS, on any port, against a fresh host
Spec == Init /\ [][Next]_vars

NextTls == PostTls \/ Run

\* one request on the default port, with or without TLS, against a fresh host
SpecTls == Init /\ [][NextTls]_vars

NextDisconnect == PostFirst \/ Run \/ Disconnect

\* one request (default port, no TLS) against a fresh host, whose observer
\* may go away at any moment of the run
SpecDisconnect == Init /\ [][NextDisconnect]_vars

NextRerun == PostFirst \/ Run \/ Repost

\* up to MaxRuns posts of the same request (default port, no TLS) against one host
SpecRerun == Init /\ [][NextRerun]_vars

\* the state before a request, with attempt a, request r, the generatePassword
\* call g, the database server s and the command e
InitWith(a, r, g, s, e) ==
    /\ phase = "idle"
    /\ response = [status |-> 0, error |-> ""]
    /\ serverPort = 0
    /\ enableSSL = FALSE
    /\ conn = NoConn
    /\ writable = TRUE
    /\ controllerClosed = FALSE
    /\ stream = << >>
    /\ log = << >>
    /\ pc = 0
    /\ locals = NoLocals
    /\ result = NoResult
    /\ host = FreshHost
    /\ prior = {}
    /\ runs = 0
    /\ attempt = a
    /\ probe = NoProbe
    /\ request = r
    /\ gen = g
    /\ sites = s
    /\ exec = e

\* createSSHConnection was called, through one of its definitions, with a
\* valid config.port
InitConnect ==
    \E d \in Definitions, p \in {DefaultPort, MinPort, MaxPort} :
        InitWith(NewAttempt(d, p), NoRequest, NoGen, NoSites, NoExec)

NextConnect == AttemptReady \/ AttemptError \/ AttemptClose \/ AttemptTimeout

\* one call of createSSHConnection and the events of its client and timer,
\* in every order
SpecConnect == InitConnect /\ [][NextConnect]_vars

\* an install request is about to be posted (any port, no TLS)
InitValidate == \E r \in Bodies : InitWith(NoAttempt, r, NoGen, NoSites, NoExec)

\* route.ts 124-204 on the drawn request
PostRequest == PostFrom({request})

NextValidate == PostRequest \/ ConnectReady \/ ConnectFail

\* one install request, drawn at the start, up to its first command
SpecValidate == InitValidate /\ [][NextValidate]_vars

\* an install request (default port, no TLS) posted while no probe is in flight
PostAlone ==
    /\ probe.phase = "idle"
    /\ PostFirst

NextLive == PostAlone \/ Run \/ ProbePost \/ ProbeRun

\* one request, to the install route or to the probe, with the timers the
\* code arms: the timer of every command run through execCommandWithTimeout
\* fires unless the command ended (ssh.ts 180-188), and a pending connection
\* attempt is rejected by its timer at the latest (ssh.ts 95-102).  Nothing is
\* assumed of the remote host.
SpecLive ==
    /\ Init
    /\ [][NextLive]_vars
    /\ WF_vars(CommandTimeout)
    /\ WF_vars(ConnectFail)
    /\ WF_vars(ProbeConnectFail)

\* generatePassword was called with one of the lengths its callers pass, and
\* crypto.randomBytes returned
InitGenerate ==
    \E n \in {DefaultPasswordLength, DbPasswordLength, AdminPasswordLength, SaltLength} :
      \E bytes \in randomBytes(n) :
        InitWith(NoAttempt, NoRequest, [phase |-> "called", length |-> n, bytes |-> bytes, value |-> << >>],
                 NoSites, NoExec)

\* one call of generatePassword
SpecGenerate == InitGenerate /\ [][GeneratePassword]_vars

\* a domain is posted against a database server that holds no site
InitDerive ==
    \E d \in DomainInputs :
        InitWith(NoAttempt, NoRequest, NoGen, [NoSites EXCEPT !.input = d, !.outcome = "posted"], NoExec)

\* one posted domain, from normalizeDomain to the site's database
SpecDerive == InitDerive /\ [][Provision]_vars

\* up to MaxSites domains posted one after the other against one database server
SpecSites == InitDerive /\ [][Provision \/ NextSite]_vars

\* a command was issued, through runCheckedCommand or unchecked
InitExec == \E c \in BOOLEAN : InitWith(NoAttempt, NoRequest, NoGen, NoSites, NewExec(c))

NextExec == ExecOpened \/ ExecRefused \/ ExecClose \/ ExecStreamError \/ ExecTimeout

\* one command, with the events of its stream and its timer in every order
SpecExec == InitExec /\ [][NextExec]_vars

---------------------------------------------------------------------------
(* Vocabulary of the properties *)

IsEvent(e, step, status) == e.kind = "event" /\ e.step = step /\ e.status = status

IsIssue(e, stage, cmd) == e.kind = "issue" /\ e.stage = stage /\ e.cmd = cmd

IsExitZero(e, stage, cmd) ==
    e.kind = "exit" /\ e.stage = stage /\ e.cmd = cmd /\ e.code = 0

\* the positions of the log that a step wrote: the whole log when the step
\* started a stream, the appended entries otherwise
NewEntries ==
    IF phase' = "connecting" THEN DOMAIN log' ELSE (Len(log) + 1)..Len(log')

Emitted(step, status) == \E k \in DOMAIN log : IsEvent(log[k], step, status)

\* spec.md section 6: the stages in their order
StageOrder ==
    << "system-update", "nginx", "database", "php", "db-config", "wordpress",
       "wp-config", "nginx-config", "wp-install", "security", "ssl" >>

MandatoryStages == { StageOrder[n] : n \in 1..10 }

\* the commands that installWordPress runs through runCheckedCommand
CheckedCommands ==
    { << Program[k].stage, Program[k].cmd >> :
        k \in { j \in DOMAIN Program : Program[j].op = "run" /\ Program[j].checked } }

\* the context strings with which a command is run through runCheckedCommand
ContextsOf(stage, cmd) ==
    { Program[k].ctx :
        k \in { j \in DOMAIN Program : /\ Program[j].op = "run"
                                        /\ Program[j].checked
                                        /\ Program[j].stage = stage
                                        /\ Program[j].cmd = cmd } }

\* log[k] is the non-zero exit of a checked command of a mandatory stage
MandatoryFailureAt(k) ==
    /\ log[k].kind = "exit"
    /\ log[k].code # 0
    /\ log[k].stage \in MandatoryStages
    /\ << log[k].stage, log[k].cmd >> \in CheckedCommands

\* the positions of the stream's terminal records
TerminalRecords == { k \in DOMAIN stream : stream[k].step \in {"done", "error"} }

TimedOut == \E k \in DOMAIN log : log[k].kind = "timeout"

\* the stage of the last 'running' event
LastRunningStage ==
    LET r == { k \in DOMAIN log : log[k].kind = "event" /\ log[k].status = "running" }
    IN  log[CHOOSE k \in r : \A j \in r : j <= k].step

---------------------------------------------------------------------------
(* Properties *)

\* C1: the stream of a validated request carries exactly one terminal record
\* ('done' or 'error') over the whole run: never two, and one once the
\* stream is closed.
C1_ExactlyOneTerminalRecord ==
    /\ Cardinality(TerminalRecords) <= 1
    /\ phase = "closed" => Cardinality(TerminalRecords) = 1

\* C2 as stated: in a run whose connection was opened, end() is invoked
\* exactly once, whatever the exit path.
C2_EndInvokedExactlyOnce ==
    /\ conn.endCalls <= 1
    /\ (phase = "closed" /\ conn.resolved) => conn.endCalls = 1

\* C2 as amended: in a run whose connection was opened, the session is closed
\* exactly once (one open -> closed transition, and it is closed when the
\* stream closes); end() is invoked once on every path but a command timeout,
\* where it is invoked twice: by the command timer and by the finally block.
C2_SessionClosedExactlyOnce ==
    /\ conn.closeCount <= 1
    /\ (phase = "closed" /\ conn.resolved) =>
          /\ conn.closeCount = 1
          /\ ~conn.open
          /\ conn.endCalls = IF TimedOut THEN 2 ELSE 1

\* a run that ended on a command timeout after the connection was opened
C2_Witness == phase = "closed" /\ conn.resolved /\ TimedOut /\ conn.closeCount = 1

\* C3: after a checked command of a mandatory stage exits non-zero, no
\* command is issued, no 'completed' event is emitted, and installWordPress
\* has returned success = false.
C3_MandatoryFailureAborts ==
    \A k \in DOMAIN log :
        MandatoryFailureAt(k) =>
            /\ \A j \in (k + 1)..Len(log) :
                  /\ log[j].kind # "issue"
                  /\ ~(log[j].kind = "event" /\ log[j].status = "completed")
            /\ result.returned
            /\ ~result.success

\* a run in which 'wp core install' exited non-zero
C3_Witness ==
    \E k \in DOMAIN log :
        MandatoryFailureAt(k) /\ log[k].cmd = "wp core install" /\ phase = "closed"

C5_TlsFailureNeverAborts ==
    (phase = "closed" /\ enableSSL /\ Emitted("security", "completed")) =>
        /\ result.success
        /\ Emitted("complete", "completed")

\* C6: a command of a stage is issued only after the 'completed' event of
\* the stage before it: whenever a step appends the issue of a command of
\* stage n > 1, the 'completed' event of stage n - 1 is earlier in the log.
C6_StageAfterPreviousCompleted ==
    [][\A k \in NewEntries :
          log'[k].kind = "issue" =>
              \A n \in 2..Len(StageOrder) :
                  log'[k].stage = StageOrder[n] =>
                      \E j \in 1..(k - 1) :
                          IsEvent(log'[j], StageOrder[n - 1], "completed")]_vars

\* a run that issued a command of the ssl stage
C6_Witness == \E k \in DOMAIN log : log[k].kind = "issue" /\ log[k].stage = "ssl"

\* C7: whenever a step issues a command, what the command reads is in place:
\* wp-config.php is written only after the four database statements
\* succeeded; 'wp core install' is issued only after wp-config.php was
\* written; certbot is issued only after the site's virtual host was
\* written, validated and reloaded, in that order.
C7_DataDependencyOrder ==
    [][\A k \in NewEntries :
          /\ IsIssue(log'[k], "wp-config", "tee wp-config.php") =>
                \A c \in {"CREATE DATABASE IF NOT EXISTS", "CREATE USER IF NOT EXISTS",
                          "GRANT ALL PRIVILEGES", "FLUSH PRIVILEGES"} :
                    \E j \in 1..(k - 1) : IsExitZero(log'[j], "db-config", c)
          /\ IsIssue(log'[k], "wp-install", "wp core install") =>
                \E j \in 1..(k - 1) : IsExitZero(log'[j], "wp-config", "tee wp-config.php")
          /\ IsIssue(log'[k], "ssl", "certbot --nginx") =>
                \E c \in 1..(k - 1) :
                    /\ IsExitZero(log'[c], "nginx-config", "systemctl reload nginx")
                    /\ \E b \in 1..(c - 1) :
                          /\ IsExitZero(log'[b], "nginx-config", "nginx -t")
                          /\ \E a \in 1..(b - 1) :
                                IsExitZero(log'[a], "nginx-config", "tee nginx site")]_vars

\* a run that issued the certbot command
C7_Witness == \E k \in DOMAIN log : IsIssue(log[k], "ssl", "certbot --nginx")

\* C8: 'ufw --force enable' is issued only after 'ufw allow <port>/tcp', for
\* the port of the run's session, exited with code 0.
C8_SshAllowedBeforeEnable ==
    \A k \in DOMAIN log :
        IsIssue(log[k], "security", "ufw --force enable") =>
            \E j \in 1..(k - 1) :
                IsExitZero(log[j], "security", "ufw allow") /\ log[j].arg = conn.port

\* a run on port 65535 that issued 'ufw --force enable'
C8_Witness ==
    /\ conn.port = MaxPort
    /\ \E k \in DOMAIN log : IsIssue(log[k], "security", "ufw --force enable")

IsAllowIssue(e) == e.kind = "issue" /\ e.cmd = "ufw allow"

\* C9: the allow rules a run issues are, in order, P/tcp, 80/tcp and 443/tcp,
\* P being the port of the run's session, and no others; all three have
\* been issued when the firewall is enabled.
C9_ExactlyThreeAllowRules ==
    LET allow == SelectSeq(log, IsAllowIssue)
        rules == << conn.port, 80, 443 >>
    IN  /\ Len(allow) <= 3
        /\ \A n \in DOMAIN allow : allow[n].arg = rules[n]
        /\ (\E k \in DOMAIN log : IsIssue(log[k], "security", "ufw --force enable"))
              => Len(allow) = 3

\* a run on port 1 that completed the security stage
C9_Witness == conn.port = MinPort /\ Emitted("security", "completed")

\* C10: after a re-run of the same request on a host where an earlier run
\* completed db-config and wp-config, the password in wp-config.php is the
\* password of the database user.
C10_RerunKeepsDatabasePassword ==
    (phase = "closed" /\ runs >= 2 /\ {"db-config", "wp-config"} \subseteq prior) =>
        host.wpConfigPw = host.dbUserPw

\* C11: on a host where an earlier run completed the wp-install stage (the
\* application is initialized at the install path), a run does not issue
\* 'wp core install'.
C11_NoReinstallOnInitializedHost ==
    ("wp-install" \in prior /\ host.wpAdminPw # 0) =>
        ~\E k \in DOMAIN log : IsIssue(log[k], "wp-install", "wp core install")

\* the entries of the log at which a command failed the run: a timeout, a
\* channel error, or the non-zero exit of a checked command
CommandFailures ==
    { k \in DOMAIN log :
        \/ log[k].kind \in {"timeout", "reject"}
        \/ /\ log[k].kind = "exit"
           /\ log[k].code # 0
           /\ << log[k].stage, log[k].cmd >> \in CheckedCommands }

\* the writes the sink refused
RefusedWrites == { k \in DOMAIN log : log[k].kind = "refused" }

\* C12: when the observer goes away mid-run, at most one write is refused (the
\* first refusal marks the sink closed and no later write is attempted); the
\* run fails only on a failed command, never on the refused write; a run whose
\* commands all succeed still runs to 'complete' with success = true; and the
\* session is closed when the stream closes.
C12_DisconnectDoesNotStopTheRun ==
    /\ Cardinality(RefusedWrites) <= 1
    /\ RefusedWrites # {} => controllerClosed
    /\ (result.returned /\ ~result.success) => CommandFailures # {}
    /\ Emitted("error", "failed") => (CommandFailures # {} \/ ~conn.resolved)
    /\ (phase = "closed" /\ conn.resolved /\ CommandFailures = {}) =>
          /\ result.success
          /\ Emitted("security", "completed")
          /\ Emitted("complete", "completed")
    /\ (phase = "closed" /\ conn.resolved) => (~conn.open /\ conn.closeCount = 1)

\* a run whose observer went away before the nginx stage ended and that ran
\* to the successful end
C12_Witness ==
    /\ ~writable
    /\ phase = "closed"
    /\ result.success
    /\ \E k \in RefusedWrites : log[k].step = "nginx"
    /\ Emitted("complete", "completed")

\* the stdout with which the lookup cmd of the ssl stage ended before
\* position k of the log ("none" when it did not)
LookupBefore(k, cmd) ==
    LET at == { j \in 1..(k - 1) : log[j].kind = "exit" /\ log[j].cmd = cmd }
    IN  IF at = {} THEN "none" ELSE log[CHOOSE j \in at : TRUE].out

\* C13: the certbot command names www.<domain> next to <domain> if and only
\* if both lookups answered a non-empty address and the two addresses are
\* equal; otherwise it names <domain> only.
C13_WwwOnlyWhenSameAddress ==
    \A k \in DOMAIN log :
        IsIssue(log[k], "ssl", "certbot --nginx") =>
            LET apex == LookupBefore(k, "getent apex")
                www == LookupBefore(k, "getent www")
            IN  /\ apex # "none" /\ www # "none"
                /\ log[k].arg \in {1, 2}
                /\ log[k].arg = 2 <=> (apex # "" /\ www # "" /\ apex = www)

\* a run in which www.<domain> resolved to another address than <domain> and
\* certbot was asked for <domain> only
C13_Witness ==
    \E k \in DOMAIN log :
        /\ IsIssue(log[k], "ssl", "certbot --nginx")
        /\ log[k].arg = 1
        /\ LookupBefore(k, "getent apex") = "198.51.100.1"
        /\ LookupBefore(k, "getent www") = "198.51.100.2"

\* the stream ends with the completion record
HasDone == Len(stream) > 0 /\ stream[Len(stream)].step = "done"

DoneRecord == stream[Len(stream)]

\* the stdout of the run's lookup cmd ("none" when it did not end)
Lookup(cmd) == LookupBefore(Len(log) + 1, cmd)

\* www.<domain> resolved, to another address than <domain>
WwwResolvesElsewhere ==
    LET apex == Lookup("getent apex")
        www == Lookup("getent www")
    IN  apex \notin {"none", ""} /\ www \notin {"none", ""} /\ apex # www

\* both names resolved to the same address
BothResolveSame ==
    LET apex == Lookup("getent apex")
        www == Lookup("getent www")
    IN  apex \notin {"none", ""} /\ apex = www

\* the exit code of the run's command cmd of the ssl stage (-1 when it did
\* not end with one)
SslExit(cmd) ==
    LET at == { j \in DOMAIN log : log[j].kind = "exit" /\ log[j].stage = "ssl"
                                   /\ log[j].cmd = cmd }
    IN  IF at = {} THEN -1 ELSE log[CHOOSE j \in at : TRUE].code

\* C14 as stated: with TLS requested and www.<domain> resolving to another
\* address than <domain>, the completion record has sslRequested = true,
\* sslEnabled = false and an http:// siteUrl.
C14_DifferentWwwMeansNoTls ==
    (HasDone /\ enableSSL /\ WwwResolvesElsewhere) =>
        /\ DoneRecord.sslRequested
        /\ ~DoneRecord.sslEnabled
        /\ DoneRecord.siteUrl = "http"

\* C14 as amended: with TLS requested and www.<domain> resolving to another
\* address than <domain>, certbot is asked for <domain> only, and the
\* completion record has sslRequested = true, sslEnabled = true exactly when
\* the certbot command exited 0, and an https:// siteUrl exactly when
\* sslEnabled (http:// otherwise).
C14_DifferentWwwRequestsBareDomainOnly ==
    (HasDone /\ enableSSL /\ WwwResolvesElsewhere) =>
        /\ DoneRecord.sslRequested
        /\ \A k \in DOMAIN log : IsIssue(log[k], "ssl", "certbot --nginx") => log[k].arg = 1
        /\ DoneRecord.sslEnabled <=> SslExit("certbot --nginx") = 0
        /\ DoneRecord.siteUrl = IF DoneRecord.sslEnabled THEN "https" ELSE "http"

\* a completed run in which www.<domain> resolved elsewhere and the
\* certificate for <domain> alone was issued
C14_Witness ==
    /\ HasDone
    /\ enableSSL
    /\ WwwResolvesElsewhere
    /\ DoneRecord.sslEnabled
    /\ DoneRecord.siteUrl = "https"

\* C15 as stated: with TLS requested, both names resolving to the same
\* address and the certbot command exiting 0, the completion record has
\* sslEnabled = true and an https:// siteUrl, and the host's stored siteurl
\* and home options are both https.
C15_IssuedCertificateUpdatesStoredUrls ==
    (HasDone /\ enableSSL /\ BothResolveSame /\ SslExit("certbot --nginx") = 0) =>
        /\ DoneRecord.sslEnabled
        /\ DoneRecord.siteUrl = "https"
        /\ host.siteurl = "https"
        /\ host.home = "https"

\* C15 as amended: with TLS requested, both names resolving to the same
\* address and the certbot command exiting 0, the completion record has
\* sslEnabled = true and an https:// siteUrl; each of the stored options
\* siteurl and home is https exactly when its 'wp option update' command
\* exited 0 (it stays http otherwise), and the ssl stage's 'completed' event
\* says that WordPress was updated exactly when both exited 0.
C15_IssuedCertificateEnablesTls ==
    (HasDone /\ enableSSL /\ BothResolveSame /\ SslExit("certbot --nginx") = 0) =>
        /\ DoneRecord.sslEnabled
        /\ DoneRecord.siteUrl = "https"
        /\ host.siteurl = IF SslExit("wp option update siteurl") = 0 THEN "https" ELSE "http"
        /\ host.home = IF SslExit("wp option update home") = 0 THEN "https" ELSE "http"
        /\ (\E k \in DOMAIN log :
               /\ IsEvent(log[k], "ssl", "completed")
               /\ log[k].msg = "SSL certificate installed and WordPress updated to HTTPS")
           <=> (SslExit("wp option update siteurl") = 0 /\ SslExit("wp option update home") = 0)

\* a completed run in which the certificate was issued for both names and the
\* update of the home option failed
C15_Witness ==
    /\ HasDone
    /\ enableSSL
    /\ BothResolveSame
    /\ SslExit("certbot --nginx") = 0
    /\ DoneRecord.sslEnabled
    /\ host.siteurl = "https"
    /\ host.home = "http"

\* the positions of the log at which cmd of the nginx-config stage was issued
NginxConfigIssues(cmd) ==
    { j \in DOMAIN log : IsIssue(log[j], "nginx-config", cmd) }

\* the positions of the log at which cmd of the nginx-config stage exited
NginxConfigExits(cmd) ==
    { j \in DOMAIN log : log[j].kind = "exit" /\ log[j].stage = "nginx-config"
                         /\ log[j].cmd = cmd }

\* the greatest element of a non-empty set of positions
Latest(S) == CHOOSE j \in S : \A i \in S : i <= j

\* C16: 'systemctl reload nginx' of the nginx-config stage is issued only when
\* the most recent 'nginx -t' exited 0 and ran after the site configuration
\* was last written; after a 'nginx -t' that exited non-zero no reload is
\* issued and the run has failed.
C16_ReloadOnlyAfterValidConfiguration ==
    LET tests == NginxConfigExits("nginx -t")
        writes == NginxConfigExits("tee nginx site")
        reloads == NginxConfigIssues("systemctl reload nginx")
    IN  /\ \A k \in reloads :
              LET before == { j \in tests : j < k }
              IN  /\ before # {}
                  /\ log[Latest(before)].code = 0
                  /\ \A w \in writes : w < Latest(before) /\ log[w].code = 0
        /\ \A t \in tests :
              log[t].code # 0 =>
                  /\ \A k \in reloads : k < t
                  /\ \A j \in (t + 1)..Len(log) : log[j].kind # "issue"
                  /\ result.returned
                  /\ ~result.success

\* a run that reloaded nginx in the nginx-config stage
C16_Witness ==
    /\ NginxConfigIssues("systemctl reload nginx") # {}
    /\ Emitted("nginx-config", "completed")

C18_OptionalExtensionsNeverAbort ==
    \A k \in DOMAIN log :
        /\ (log[k].kind = "issue" /\ log[k].stage = "php"
            /\ Packages(log[k].cmd) \cap OptionalPhpPackages # {}) =>
              /\ Cardinality(Packages(log[k].cmd)) = 1
              /\ << log[k].stage, log[k].cmd >> \notin CheckedCommands
        /\ (log[k].kind = "exit" /\ log[k].stage = "php" /\ log[k].code # 0
            /\ Packages(log[k].cmd) \cap OptionalPhpPackages # {}) =>
              ((phase = "closed" /\ CommandFailures \ {k} = {}) =>
                  (result.success /\ Emitted("php", "completed")))

\* the install command and the service command of the two server stages
ServerStages ==
    { [stage |-> "nginx", check |-> "command -v nginx",
       install |-> "apt-get install nginx", service |-> "systemctl enable+start nginx"],
      [stage |-> "database", check |-> "command -v mariadb",
       install |-> "apt-get install mariadb",
       service |-> "systemctl enable+start mariadb"] }

\* C19: in the nginx stage and in the database stage, the step that reads the
\* pre-check's exit code issues the package install when the code is non-zero
\* and the service command when it is 0, and emits no failure; the install is
\* issued only by that step; the service command is issued when the install
\* exited 0; the stage's 'completed' event is emitted only when the service
\* command exited 0.
C19_InstallIffPreCheckFailed ==
    [][\A s \in ServerStages :
          /\ (phase = "running" /\ Program[pc].stage = s.stage
              /\ Program[pc].cmd = s.check /\ Len(log') > Len(log)
              /\ log'[Len(log) + 1].kind = "exit") =>
                /\ Len(log') = Len(log) + 2
                /\ IsIssue(log'[Len(log) + 2], s.stage,
                           IF log'[Len(log) + 1].code # 0 THEN s.install ELSE s.service)
                /\ phase' = "running"
          /\ \A k \in NewEntries :
                /\ IsIssue(log'[k], s.stage, s.install) =>
                      /\ log'[k - 1].kind = "exit"
                      /\ log'[k - 1].cmd = s.check
                      /\ log'[k - 1].code # 0
                /\ IsIssue(log'[k], s.stage, s.service) =>
                      /\ log'[k - 1].kind = "exit"
                      /\ log'[k - 1].code = 0
                      /\ log'[k - 1].cmd \in {s.check, s.install}
                /\ IsEvent(log'[k], s.stage, "completed") =>
                      /\ IsExitZero(log'[k - 1], s.stage, s.service)]_vars

\* a run whose nginx pre-check found nginx and whose database pre-check did
\* not find MariaDB, and that completed both stages
C19_Witness ==
    /\ Emitted("database", "completed")
    /\ \E k \in DOMAIN log : IsExitZero(log[k], "nginx", "command -v nginx")
    /\ ~\E k \in DOMAIN log : IsIssue(log[k], "nginx", "apt-get install nginx")
    /\ \E k \in DOMAIN log : IsIssue(log[k], "database", "apt-get install mariadb")

\* C20: every path a command of the wordpress stage deletes is a scratch
\* artifact; the scratch artifacts are deleted before the download and after
\* the copy; and no step of the stage changes the wp-config.php that an
\* earlier install left in the install directory.
C20_DownloadClearsOnlyScratch ==
    [][/\ \A k \in NewEntries :
             /\ (log'[k].kind = "issue" /\ log'[k].stage = "wordpress") =>
                   /\ RemovedBy(log'[k].cmd) \subseteq ScratchPaths
                   /\ log'[k].cmd = "curl latest.tar.gz" =>
                         \E j \in 1..(k - 1) :
                             IsExitZero(log'[j], "wordpress", "rm -rf scratch (before)")
             /\ IsEvent(log'[k], "wordpress", "completed") =>
                   /\ IsExitZero(log'[k - 1], "wordpress", "rm -rf scratch (after)")
                   /\ \E j \in 1..(k - 1) : IsExitZero(log'[j], "wordpress", "cp -a to wpDir")
       /\ (phase = "running" /\ Program[pc].stage = "wordpress") =>
             host'.wpConfigPw = host.wpConfigPw]_vars

\* a second run that went through the download with the first run's
\* wp-config.php in the install directory
C20_Witness ==
    /\ runs = 2
    /\ "wp-config" \in prior
    /\ host.wpConfigPw # 0
    /\ Emitted("wordpress", "completed")
    /\ ~Emitted("wp-config", "completed")

\* C21: when createSSHConnection rejects, the run consists of 'connecting'
\* running followed by exactly one 'error' record: installWordPress is never
\* called, no command is issued and no event of a numbered stage is emitted.
C21_ConnectionFailureRunsNoStage ==
    (phase = "closed" /\ ~conn.resolved) =>
        /\ Len(log) = 2
        /\ IsEvent(log[1], "connecting", "running")
        /\ IsEvent(log[2], "error", "failed")
        /\ Len(stream) = 2
        /\ stream[1].step = "connecting" /\ stream[1].status = "running"
        /\ stream[2].step = "error" /\ stream[2].status = "failed"
        /\ ~result.returned

\* a request whose connection attempt was rejected
C21_Witness ==
    phase = "closed" /\ ~conn.resolved /\ response.status = 200 /\ Len(stream) = 2

\* event or call e is in the trace of attempt a
Happened(a, e) == \E k \in DOMAIN a.trace : a.trace[k] = e

\* the calls of resolve and reject in the trace of attempt a
Settlings(a) == { k \in DOMAIN a.trace : a.trace[k] \in {"resolve", "reject"} }

\* C22: in every definition of createSSHConnection, once the client reported
\* 'close' without having reported 'ready', the returned promise is rejected.
C22_CloseBeforeReadyIsRejected ==
    (Happened(attempt, "close") /\ ~Happened(attempt, "ready")) =>
        attempt.promise = "rejected"

\* C23: in the definition at ssh.ts 76, resolve and reject are called at most
\* once altogether; and once the timer has fired, end() was called on the
\* client right before the one rejection, the promise is rejected with the
\* timeout error, and it stays so whatever event arrives afterwards.
C23_TimeoutEndsThenRejectsOnce ==
    attempt.def = 76 =>
        /\ Cardinality(Settlings(attempt)) <= 1
        /\ (attempt.promise # "pending") = (Settlings(attempt) # {})
        /\ (attempt.timeout = "fired") =>
              (/\ attempt.promise = "rejected"
               /\ attempt.reason = "SSH connection timed out after 20 seconds"
               /\ attempt.endCalls = 1
               /\ \E k \in DOMAIN attempt.trace :
                     /\ attempt.trace[k] = "timeout"
                     /\ k + 2 <= Len(attempt.trace)
                     /\ attempt.trace[k + 1] = "end"
                     /\ attempt.trace[k + 2] = "reject")

\* an attempt whose timer fired first and whose client reported 'ready' and
\* 'error' afterwards
C23_Witness ==
    /\ attempt.def = 76
    /\ attempt.timeout = "fired"
    /\ Happened(attempt, "ready")
    /\ Happened(attempt, "error")
    /\ attempt.promise = "rejected"

\* C24: every command has a timer of its own, so that, whatever the remote
\* host does, a request that opened its stream reaches its terminal record
\* and a probe that started connecting answers.
C24_EveryRequestResponds ==
    /\ (phase \in {"connecting", "running"}) ~> (phase = "closed")
    /\ (probe.phase \in {"connecting", "probing"}) ~> (probe.phase = "responded")

\* C25: once a command of a mandatory stage timed out (a pre-check
\* included), the run has failed: installWordPress returned success = false,
\* an 'error' event follows the timeout, and no command is issued after it.
C25_TimeoutFailsTheRun ==
    \A k \in DOMAIN log :
        (log[k].kind = "timeout" /\ log[k].stage \in MandatoryStages) =>
            /\ phase = "closed"
            /\ result.returned
            /\ ~result.success
            /\ \E j \in (k + 1)..Len(log) : IsEvent(log[j], "error", "failed")
            /\ \A j \in (k + 1)..Len(log) : log[j].kind # "issue"

\* a run whose nginx pre-check timed out
C25_Witness ==
    \E k \in DOMAIN log :
        log[k].kind = "timeout" /\ log[k].stage = "nginx" /\ log[k].cmd = "command -v nginx"

\* the context strings of the checked commands of a stage
StageContexts(stage) ==
    { Program[k].ctx :
        k \in { j \in DOMAIN Program : /\ Program[j].op = "run"
                                        /\ Program[j].checked
                                        /\ Program[j].stage = stage } }

\* C26: whatever failed a command of a mandatory stage (a non-zero exit, a
\* timeout, an execution or stream error), the run's terminal record is the
\* 'error' record and its message begins with a context string of that stage.
C26_EveryMandatoryErrorCarriesContext ==
    phase = "closed" =>
        \A k \in CommandFailures :
            log[k].stage \in MandatoryStages =>
                /\ stream[Len(stream)].step = "error"
                /\ stream[Len(stream)].msg \in StageContexts(log[k].stage)

\* the identifiers of the stages: 'connecting' and the stages of StageOrder
StageIdentifiers == {"connecting"} \cup { StageOrder[n] : n \in DOMAIN StageOrder }

\* e is the terminal event ('completed' or 'failed') of stage s
IsTerminal(e, s) ==
    e.kind = "event" /\ e.step = s /\ e.status \in {"completed", "failed"}

\* C27: whenever a step emits the terminal event of a stage, the stage's
\* 'running' event is earlier in the run's log and no terminal event of the
\* stage is; a 'completed' event comes only when every checked command the
\* stage issued exited with code 0; and no command of a stage is issued once
\* the stage has its terminal event.
C27_OneTerminalEventPerStage ==
    [][\A k \in NewEntries :
          /\ \A s \in StageIdentifiers :
                IsTerminal(log'[k], s) =>
                    /\ \E j \in 1..(k - 1) : IsEvent(log'[j], s, "running")
                    /\ \A j \in 1..(k - 1) : ~IsTerminal(log'[j], s)
                    /\ (log'[k].status = "completed") =>
                          (\A j \in 1..(k - 1) :
                              (/\ log'[j].kind = "issue"
                               /\ log'[j].stage = s
                               /\ << s, log'[j].cmd >> \in CheckedCommands) =>
                                  IsExitZero(log'[j + 1], s, log'[j].cmd))
          /\ (log'[k].kind = "issue") =>
                (\A j \in 1..(k - 1) : ~IsTerminal(log'[j], log'[k].stage))]_vars

\* a run whose ssl stage ended with 'failed' and that went on to 'complete'
C27_Witness == Emitted("ssl", "failed") /\ Emitted("complete", "completed")

\* C28: when certbot exits non-zero, the ssl stage ends with a 'completed'
\* event (carrying the failure as text), never with a 'failed' event, and the
\* run goes on to 'complete'.
C28_TlsFailureIsCompletedWithCaveat ==
    (\E k \in DOMAIN log :
        /\ log[k].kind = "exit"
        /\ log[k].stage = "ssl"
        /\ log[k].cmd = "certbot --nginx"
        /\ log[k].code # 0) =>
        /\ Emitted("ssl", "completed")
        /\ ~Emitted("ssl", "failed")
        /\ Emitted("complete", "completed")

\* C29: when TLS is not requested, the run issues no command of the ssl stage
\* (no certbot installation, no lookup, no certbot), emits no event of the
\* ssl stage, returns sslInstalled = false, and its completion record has
\* sslEnabled = false and an http:// siteUrl.
C29_NoTlsWorkUnlessRequested ==
    ~enableSSL =>
        /\ \A k \in DOMAIN log :
              IF log[k].kind \in {"event", "refused"}
              THEN log[k].step # "ssl"
              ELSE log[k].stage # "ssl"
        /\ ~result.sslInstalled
        /\ HasDone => (~DoneRecord.sslEnabled /\ DoneRecord.siteUrl = "http")

\* a run without TLS that sent its completion record
C29_Witness == phase = "closed" /\ ~enableSSL /\ HasDone /\ result.success

\* every check on the request passes: a valid host, a username, a valid
\* domain, a port that is absent or an integer of 1..65535, the credential of
\* the chosen authentication method, a valid admin username and email, a PHP
\* version that is absent or supported
AllChecksPass(body) ==
    /\ isValidHost(body.host)
    /\ body.username # ""
    /\ isValidDomain(body.domain)
    /\ body.port = NoPort \/ (body.port >= MinPort /\ body.port <= MaxPort)
    /\ body.authMethod = "password" => body.password # ""
    /\ body.authMethod = "key" => body.privateKey # ""
    /\ body.adminUserOk
    /\ body.adminEmailOk
    /\ body.phpVersion \in SUPPORTED_PHP_VERSIONS \cup {"absent"}

\* C30: a request that fails a check is answered with status 400 and an error
\* message, and nothing else happens for it: no stream event, no connection
\* attempt, no command.
C30_NothingStartsBeforeValidation ==
    (phase # "idle" /\ ~AllChecksPass(request)) =>
        /\ phase = "rejected"
        /\ response.status = 400
        /\ response.error # ""
        /\ stream = << >>
        /\ log = << >>
        /\ conn = NoConn

\* a request rejected for its port alone
C30_Witness ==
    /\ phase = "rejected"
    /\ response.status = 400
    /\ request.port = MaxPort + 1
    /\ AllChecksPass([request EXCEPT !.port = NoPort])

---------------------------------------------------------------------------
(* Generated passwords *)

\* the entropy of a password in bits, counting six bits for each of its
\* base64url characters
EntropyBits(password) == 6 * Len(password)

\* C32: counting 6 bits per base64url character of the value generatePassword
\* returns, the database password (generatePassword(32)) carries at least 24
\* bytes (192 bits) of entropy and the admin password (generatePassword(20))
\* at least 16 bytes (128 bits)
C32_PasswordEntropyFloors ==
    gen.phase = "returned" =>
        /\ Len(gen.value) = gen.length
        /\ (gen.length = DbPasswordLength => EntropyBits(gen.value) >= 8 * 24)
        /\ (gen.length = AdminPasswordLength => EntropyBits(gen.value) >= 8 * 16)

---------------------------------------------------------------------------
(* One command: its timer, its exit code, its diagnostic *)

\* the first event of the command that ends it: "close", "error", "refused"
\* (conn.exec called back with an error) or "timeout"; "none" before any
FirstOutcome(e) ==
    LET ends == { k \in DOMAIN e.trace : e.trace[k] # "open" }
    IN  IF ends = {} THEN "none"
        ELSE e.trace[CHOOSE k \in ends : \A j \in ends : k <= j]

\* what a settled call of execCommandWithTimeout shows its caller and the observer
ExecOutcome == << exec.outer, exec.reason, exec.caller, exec.event, exec.record >>

\* the promise of execCommandWithTimeout is settled by the first event and by
\* one call; when the command ended first the timer is cleared and has ended
\* nothing, when the timer fired first the promise is rejected with the
\* timer's message
SettledOnce ==
    LET first == FirstOutcome(exec)
    IN  /\ first # "none" => exec.outer # "pending" /\ exec.outerCalls = 1
        /\ first \in {"close", "error", "refused"} =>
              /\ exec.timer = "cleared"
              /\ ~exec.timedOut
              /\ exec.endCalls = 0
              /\ exec.outer = (IF first = "close" THEN "resolved" ELSE "rejected")
        /\ first = "timeout" =>
              /\ exec.outer = "rejected"
              /\ exec.reason = TimedOutMessage
              /\ exec.endCalls = 1

\* C33: execCommandWithTimeout settles its promise exactly once in every order
\* of the timer and the command's close and error events: when the command
\* ends first the timer is cleared and neither rejects nor ends the
\* connection; when the timer fires first, a later close or error of the
\* command changes nothing of the outcome
C33_SettlesExactlyOnce ==
    /\ []SettledOnce
    /\ [][exec.outer # "pending" => ExecOutcome' = ExecOutcome]_vars

\* the timer fired first and the command's close came after it
C33_Witness ==
    /\ FirstOutcome(exec) = "timeout"
    /\ exec.trace[Len(exec.trace)] = "close"
    /\ exec.inner = "resolved"
    /\ exec.outer = "rejected"

\* C34: execCommand resolves when the remote process reports close, with the
\* exit code the event carries and with 0 when it carries none; a checked
\* command whose close carries no exit code is taken for a success by
\* runCheckedCommand, which returns, so that the run goes on to its next command
C34_MissingExitCodeIsSuccess ==
    /\ (\E k \in DOMAIN exec.trace : exec.trace[k] = "close")
       /\ (\A k \in DOMAIN exec.trace : exec.trace[k] # "error")
          => exec.inner = "resolved"
    /\ exec.inner = "resolved" =>
          exec.value.code = (IF exec.supplied = NoCode THEN 0 ELSE exec.supplied)
    /\ exec.checked /\ FirstOutcome(exec) = "close" =>
          (exec.caller = "returned" <=> exec.supplied \in {NoCode, 0})

\* a checked command closed without an exit code and runCheckedCommand returned
C34_Witness ==
    /\ exec.checked
    /\ FirstOutcome(exec) = "close"
    /\ exec.supplied = NoCode
    /\ exec.value.code = 0
    /\ exec.caller = "returned"

\* C35: for every failed outcome of a checked command the diagnostic is the
\* content of stderr when there is any, else the content of stdout when there
\* is any, else 'exit code N'; it is never empty, and neither is the message
\* of the error records the observer is sent
C35_DiagnosticNeverEmpty ==
    /\ exec.caller = "threw" /\ exec.outer = "resolved" =>
          /\ exec.diagnostic =
                (IF exec.value.stderr # << >> THEN exec.value.stderr
                 ELSE IF exec.value.stdout # << >> THEN exec.value.stdout
                 ELSE << "e", "x", "i", "t", " ", "c", "o", "d", "e", " " >>
                      \o Decimal(exec.value.code))
          /\ exec.diagnostic # << >>
          /\ exec.event = Context \o << ":", " " >> \o exec.diagnostic
          /\ exec.record = exec.event
    /\ exec.caller = "threw" => exec.record # << >>

\* a checked command wrote white space only and exited with code 127: the
\* diagnostic is 'exit code 127'
C35_Witness ==
    /\ exec.caller = "threw"
    /\ exec.outer = "resolved"
    /\ exec.value.stderr = << >>
    /\ exec.value.stdout = << >>
    /\ exec.diagnostic =
          << "e", "x", "i", "t", " ", "c", "o", "d", "e", " ", "1", "2", "7" >>

---------------------------------------------------------------------------
(* The connectivity probe's commands *)

\* the probe's session was opened: its three commands were issued
ProbeOpened == \E c \in ProbeCommands : probe.cmds[c] # "none"

\* C36: the probe issues its three commands together on one session and
\* builds no response before they are joined: success is answered only when
\* all three resolved, the rejection of any one is answered with success
\* false and a reason, and once the session was opened every response comes
\* after end() was called on it
C36_ProbeJoinsAndEnds ==
    /\ ProbeOpened => \A c \in ProbeCommands : probe.cmds[c] # "none"
    /\ probe.phase = "probing" =>
          /\ probe.open
          /\ probe.response.status = 0
          /\ \A c \in ProbeCommands : probe.cmds[c] \in {"pending", "resolved"}
    /\ probe.response.success =>
          /\ probe.response.status = 200
          /\ \A c \in ProbeCommands : probe.cmds[c] = "resolved"
    /\ (\E c \in ProbeCommands : probe.cmds[c] = "rejected") =>
          /\ probe.phase = "responded"
          /\ ~probe.response.success
          /\ probe.response.error # ""
    /\ probe.phase = "responded" /\ ProbeOpened =>
          /\ probe.endCalls >= 1
          /\ ~probe.open
          /\ \/ \A c \in ProbeCommands : probe.cmds[c] = "resolved"
             \/ \E c \in ProbeCommands : probe.cmds[c] = "rejected"

\* one command was rejected after another had resolved and while the third
\* was pending; the probe answered and ended the session
C36_Witness ==
    /\ probe.phase = "responded"
    /\ \E c, d, e \in ProbeCommands :
          /\ probe.cmds[c] = "rejected"
          /\ probe.cmds[d] = "resolved"
          /\ probe.cmds[e] = "pending"
    /\ probe.endCalls = 1
    /\ ~probe.response.success

---------------------------------------------------------------------------
(* Database identifiers *)

\* every character of s is one of [A-Za-z0-9_]
IsIdentifier(s) == \A k \in DOMAIN s : IsAlnum(s[k]) \/ s[k] = "_"

\* C37: for every domain isValidDomain accepts, the derived database name and
\* database user hold only characters of [A-Za-z0-9_], the name has at most
\* 64 characters and the user at most 32
C37_IdentifiersAreSafe ==
    \A k \in DOMAIN sites.provisioned :
        LET site == sites.provisioned[k]
        IN  /\ DOMAIN_PATTERN(site.domain)
            /\ IsIdentifier(site.dbName)
            /\ IsIdentifier(site.dbUser)
            /\ Len(site.dbName) >= 1
            /\ Len(site.dbName) <= 64
            /\ Len(site.dbUser) >= 1
            /\ Len(site.dbUser) <= 32

\* a domain of three labels, the first of 30 characters, was accepted: its
\* dots are gone from the identifiers, which keep 28 of its characters
C37_Witness ==
    /\ sites.outcome = "provisioned"
    /\ Len(sites.provisioned) = 1
    /\ Len(sites.provisioned[1].domain) = 72
    /\ \E k \in DOMAIN sites.provisioned[1].domain : sites.provisioned[1].domain[k] = "."
    /\ Len(sites.provisioned[1].dbName) = 31
    /\ Len(sites.provisioned[1].dbUser) = 31

\* C38: two distinct valid domains never derive the same database name or the
\* same database user, so the second of two sites provisioned on one server
\* creates its own database and user and is granted nothing on the first's
C38_DistinctDomainsDistinctDatabases ==
    \A j, k \in DOMAIN sites.provisioned :
        j < k /\ sites.provisioned[j].domain # sites.provisioned[k].domain =>
            /\ sites.provisioned[j].dbName # sites.provisioned[k].dbName
            /\ sites.provisioned[j].dbUser # sites.provisioned[k].dbUser
            /\ sites.provisioned[k].createdDatabase
            /\ sites.provisioned[k].createdUser
            /\ << sites.provisioned[k].dbUser, sites.provisioned[j].dbName >>
                  \notin sites.grants

---------------------------------------------------------------------------
(* The completion record *)

\* C39: whenever a completion record is sent, the database password it
\* carries is the password of the database user on the host and the admin
\* password it carries is the password of the WordPress admin on the host,
\* also when an earlier run created the user and installed the site
C39_RecordCredentialsAreInEffect ==
    HasDone =>
        /\ DoneRecord.dbPassword = host.dbUserPw
        /\ DoneRecord.adminPassword = host.wpAdminPw

\* C40: in every completion record siteUrl and adminUrl have the https scheme
\* exactly when sslEnabled is true, sslEnabled implies sslRequested, and
\* sslEnabled is true only if the certbot command of the run exited with code 0
C40_SchemeFollowsSslEnabled ==
    HasDone =>
        /\ DoneRecord.siteUrl = (IF DoneRecord.sslEnabled THEN "https" ELSE "http")
        /\ DoneRecord.adminUrl = (IF DoneRecord.sslEnabled THEN "https" ELSE "http")
        /\ DoneRecord.sslEnabled => DoneRecord.sslRequested
        /\ DoneRecord.sslEnabled => SslExit("certbot --nginx") = 0

\* a completion record with both URLs on https, after certbot exited 0 and
\* the two option updates failed
C40_Witness ==
    /\ HasDone
    /\ DoneRecord.sslEnabled
    /\ DoneRecord.adminUrl = "https"
    /\ SslExit("certbot --nginx") = 0
    /\ SslExit("wp option update siteurl") = 1
    /\ SslExit("wp option update home") = 1

===========================================================================
